---- MODULE Spec2Model ----
(***************************************************************************)
(* IT-Support-ChatBot: the streaming orchestrator (POST of the chat        *)
(* route), the intent classifier and its keyword fallback, the workflow    *)
(* dispatcher, the escalation handler, the ticket store and the metrics    *)
(* tracker.  Strings are sequences of one-character strings, so that       *)
(* toLowerCase, includes and slice are computed character by character.    *)
(***************************************************************************)
EXTENDS Integers, Sequences, FiniteSets, TLC

VARIABLES
    route,          \* which chat route serves the request: "stream" | "plain"
    intakeCopy,     \* which copy of classifyRequest is linked: "part_002" | "intake_agent"
    body,           \* the request body's last message: [kind, text]
    pc,             \* the await point POST is suspended at
    llmIntent,      \* what the model answered to the classification prompt
    intent,         \* classifyRequest's result
    decision,       \* the action decision generateObject returned to executeWorkflow
    agentResult,    \* the handler's message handed to synthesis
    events,         \* the records enqueued on the event stream, in order
    closed,         \* controller.close() was called
    failedAt,       \* the stage whose await rejected ("none" while none did)
    calls,          \* every function and capability invocation, in order
    workflowResult, \* the WorkflowResult executeWorkflow resolved to
    raised,         \* the calls that raised, in order
    chunks,         \* text chunks the synthesis stream has yielded so far
    tickets,        \* rows of the tickets table, in insertion order
    nextId,         \* next value of the SERIAL id column
    now,            \* the database clock
    metricsEvents,  \* MetricsTracker.events
    tableOwner,     \* the component whose CREATE TABLE made the tickets table
    lastOp,         \* the last statement run on the tickets table and its result
    given,          \* per ticket, the parameters its create was called with
    wall,           \* the wall clock in hours, what new Date() and Date.now() read
    inflight,       \* per request in flight: its position in POST and what it recorded
    history,        \* every event addEvent was called with, in call order
    lastRead        \* what the last GET of the metrics route returned

vars == <<route, intakeCopy, body, pc, llmIntent, intent, decision, agentResult, events,
          closed, failedAt, calls, workflowResult, raised, chunks, tickets,
          nextId, now, metricsEvents, tableOwner, lastOp, given,
          wall, inflight, history, lastRead>>

(***************************************************************************)
(* Bounds                                                                  *)
(***************************************************************************)
MaxFrags == 2       \* fragments concatenated into a classifier input
MaxChunks == 2      \* chunks a synthesis stream yields at most
MaxClock == 2       \* the database clock stops advancing here
MaxTickets == 2     \* rows the tickets table holds at most
MaxStoreClock == 1  \* the clock of the statements run on the table stops here
MaxRequests == 2    \* requests in flight at the same time

NULL == "null"

Min(a, b) == IF a <= b THEN a ELSE b

(***************************************************************************)
(* Strings                                                                 *)
(***************************************************************************)
Upper == <<"A","B","C","D","E","F","G","H","I","J","K","L","M","N","O","P","Q","R","S","T","U","V","W","X","Y","Z">>
Lower == <<"a","b","c","d","e","f","g","h","i","j","k","l","m","n","o","p","q","r","s","t","u","v","w","x","y","z">>

\* String.prototype.toLowerCase on one character
lowerChar(c) ==
    IF \E i \in 1..Len(Upper) : Upper[i] = c
    THEN Lower[CHOOSE i \in 1..Len(Upper) : Upper[i] = c]
    ELSE c

\* String.prototype.toLowerCase
toLowerCase(s) == [i \in 1..Len(s) |-> lowerChar(s[i])]

\* String.prototype.includes
includes(s, kw) ==
    \E str \in { s } :
        \E i \in 1..(Len(str) - Len(kw) + 1) : SubSeq(str, i, i + Len(kw) - 1) = kw

\* String.prototype.slice(0, n)
slice(s, n) == SubSeq(s, 1, Min(n, Len(s)))

kwTicket   == <<"t","i","c","k","e","t">>
kwClose    == <<"c","l","o","s","e">>
kwStatus   == <<"s","t","a","t","u","s">>
kwHuman    == <<"h","u","m","a","n">>
kwAgent    == <<"a","g","e","n","t">>
kwReset    == <<"r","e","s","e","t">>
kwBroken   == <<"b","r","o","k","e","n">>
kwIssue    == <<"i","s","s","u","e">>
kwFix      == <<"f","i","x">>
kwPassword == <<"p","a","s","s","w","o","r","d">>
kwShut     == <<"s","h","u","t">>
kwDone     == <<"d","o","n","e">>
kwComplete == <<"c","o","m","p","l","e","t","e">>
kwFinish   == <<"f","i","n","i","s","h">>
kwResolve  == <<"r","e","s","o","l","v","e">>
kwProgress == <<"p","r","o","g","r","e","s","s">>
kwStart    == <<"s","t","a","r","t">>
kwWork     == <<"w","o","r","k">>
kwBegin    == <<"b","e","g","i","n">>
kwReopen   == <<"r","e","o","p","e","n">>
kwReOpen   == <<"r","e","-","o","p","e","n">>

(***************************************************************************)
(* Inputs                                                                  *)
(***************************************************************************)
Fragments == {
    <<"t","i","c","k","e","t">>,
    <<"C","l","o","s","e">>,
    <<"S","T","A","T","U","S">>,
    <<"h","u","m","a","n">>,
    <<"A","g","e","n","t">>,
    <<"r","e","s","e","t">>,
    <<"r","e">>,
    <<"s","e","t"," ">>,
    <<"T","i","c","k">>,
    <<"E","T">>,
    <<"A","G","E","N","T">>,
    <<" ","m","y"," ">>,
    <<"h","e","l","l","o">> }

RECURSIVE MessagesUpTo(_)
MessagesUpTo(n) ==
    IF n = 0 THEN { <<>> }
    ELSE LET shorter == MessagesUpTo(n - 1)
         IN  shorter \cup { m \o f : m \in shorter, f \in Fragments }

\* inputs of the classifier
Messages == MessagesUpTo(MaxFrags)

msgCloseTicket == <<"c","l","o","s","e"," ","t","i","c","k","e","t"," ","1">>
msgResetAccount == <<"P","l","e","a","s","e"," ","r","e","s","e","t"," ","m","y"," ","a","c","c","o","u","n","t">>
msgHumanAgent == <<"I"," ","w","a","n","t"," ","t","o"," ","s","p","e","a","k"," ","t","o"," ","a"," ","h","u","m","a","n"," ","a","g","e","n","t">>
msgMonitor == <<"M","y"," ","m","o","n","i","t","o","r"," ","i","s"," ","b","r","o","k","e","n">>
msgHello == <<"h","e","l","l","o">>
msgStatus == <<"W","h","a","t"," ","i","s"," ","t","h","e"," ","s","t","a","t","u","s"," ","o","f"," ","m","y"," ","r","e","q","u","e","s","t">>
msgPassword == <<"I"," ","f","o","r","g","o","t"," ","m","y"," ","p","a","s","s","w","o","r","d">>
msgLong == <<"T","h","e"," ","p","r","i","n","t","e","r"," ","i","s","s","u","e"," ","o","n"," ","f","l","o","o","r"," ","3"," ","i","s"," ","s","t","i","l","l"," ","n","o","t"," ","f","i","x","e","d"," ","a","f","t","e","r"," ","a"," ","w","h","o","l","e"," ","w","e","e","k">>

msgFixPassword == <<"f","i","x"," ","m","y"," ","p","a","s","s","w","o","r","d">>

\* messages sent through the whole pipeline
RequestMessages ==
    { msgCloseTicket, msgResetAccount, msgHumanAgent, msgMonitor, msgHello,
      msgStatus, msgPassword, msgLong, msgFixPassword }

\* bodies of a request: a string message, a last message without string
\* content, or an empty messages array
StringBody(m) == [kind |-> "string", text |-> m]
UndefinedBody == [kind |-> "undefined", text |-> <<>>]
EmptyBody == [kind |-> "empty", text |-> <<>>]

(***************************************************************************)
(* Language-model capability                                               *)
(***************************************************************************)
Intents == {"knowledge", "workflow", "escalation"}

\* what the model may answer to the classification prompt: a label of the
\* schema, a value outside it, or a provider error
ClassifyOutcomes ==
    [kind : {"object"}, value : Intents \cup {"billing"}]
        \cup { [kind |-> "error", value |-> NULL] }

\* faulty variant: the object is not validated against the schema
generateObjectUnchecked(llm) ==
    IF llm.kind = "object"
    THEN [ok |-> TRUE, value |-> llm.value]
    ELSE [ok |-> FALSE, value |-> NULL]

\* generateObject with z.enum([...]): an object that fails the schema is
\* an error of the call
generateObjectIntent(llm) ==
    IF llm.kind = "object" /\ llm.value \in Intents
    THEN [ok |-> TRUE, value |-> llm.value]
    ELSE [ok |-> FALSE, value |-> NULL]

(***************************************************************************)
(* Intent classifier                                                       *)
(***************************************************************************)
\* the catch block of classifyRequest, copy in unnamed/part_002
fallbackPart002(message) ==
    LET lowerMsg == toLowerCase(message)
    IN  IF includes(lowerMsg, kwTicket) \/ includes(lowerMsg, kwClose)
           \/ includes(lowerMsg, kwStatus)
        THEN "workflow"
        ELSE IF includes(lowerMsg, kwHuman) \/ includes(lowerMsg, kwAgent)
        THEN "escalation"
        ELSE "knowledge"

\* the catch block of classifyRequest, copy in src/agents/intake/agent.ts
fallbackIntakeAgent(message) ==
    LET lowerMsg == toLowerCase(message)
    IN  IF includes(lowerMsg, kwReset) \/ includes(lowerMsg, kwTicket)
        THEN "workflow"
        ELSE IF includes(lowerMsg, kwHuman) \/ includes(lowerMsg, kwAgent)
        THEN "escalation"
        ELSE "knowledge"

keywordFallback(copy, message) ==
    IF copy = "part_002" THEN fallbackPart002(message)
    ELSE fallbackIntakeAgent(message)

\* faulty variant: no catch block, a failed model call rejects
classifyRequestNoFallback(copy, b, llm) ==
    LET r == generateObjectIntent(llm)
    IN  IF r.ok THEN [ok |-> TRUE, value |-> r.value]
        ELSE [ok |-> FALSE, value |-> NULL]

\* classifyRequest: [ok, value]; ok = FALSE is a rejected promise (the
\* catch block calls toLowerCase on a message that is not a string)
classifyRequest(copy, b, llm) ==
    LET r == generateObjectIntent(llm)
    IN  IF r.ok THEN [ok |-> TRUE, value |-> r.value]
        ELSE IF b.kind = "string"
        THEN [ok |-> TRUE, value |-> keywordFallback(copy, b.text)]
        ELSE [ok |-> FALSE, value |-> NULL]

(***************************************************************************)
(* Ticket store                                                            *)
(***************************************************************************)
Statuses == {"open", "in_progress", "resolved", "closed"}
Priorities == {"low", "medium", "high", "critical"}
Categories == {"hardware", "software", "network", "access", "other"}

\* CreateTicketParams; an optional field that is not given is NULL
CreateParams(title, description, priority, category) ==
    [title |-> title, description |-> description,
     priority |-> priority, category |-> category]

\* the components that run CREATE TABLE IF NOT EXISTS tickets: the ticket
\* service, the MCP server and the tickets route
TableOwners == {"core", "mcp", "api"}

\* the DEFAULT of a column in the table a component creates
columnDefault(owner, column) ==
    CASE column = "status" -> "open"
      [] column = "priority" -> "medium"
      [] column = "category" -> IF owner = "core" THEN "other" ELSE "general"
      [] OTHER -> NULL

\* CREATE TABLE IF NOT EXISTS: the table stays the one that exists
ensureTable(owner, component) == IF owner = "none" THEN component ELSE owner

\* faulty variant: the sequence hands out its value again
nextvalStuck(seq) == seq

\* id SERIAL: the sequence after it handed out its value
nextval(seq) == seq + 1

\* faulty variant: the INSERT leaves the category to the table's default
insertRowCategoryUnlisted(owner, listed, id, t) ==
    LET col(c) == IF c \in DOMAIN listed THEN listed[c] ELSE columnDefault(owner, c)
    IN  [id |-> id,
         title |-> col("title"),
         description |-> col("description"),
         status |-> col("status"),
         priority |-> col("priority"),
         category |-> columnDefault(owner, "category"),
         createdAt |-> t,
         updatedAt |-> t]

\* INSERT INTO tickets (<the fields of listed>) VALUES (...) RETURNING ...:
\* a column that is not listed takes the table's default, id the next
\* value of the sequence and both timestamps NOW()
insertRow(owner, listed, id, t) ==
    LET col(c) == IF c \in DOMAIN listed THEN listed[c] ELSE columnDefault(owner, c)
    IN  [id |-> id,
         title |-> col("title"),
         description |-> col("description"),
         status |-> col("status"),
         priority |-> col("priority"),
         category |-> col("category"),
         createdAt |-> t,
         updatedAt |-> t]

\* faulty variant: the INSERT does not pass the priority
createTicketNoPriority(owner, params, id, t) ==
    insertRow(owner,
              [title |-> params.title,
               description |-> params.description,
               category |-> IF params.category = NULL THEN "other" ELSE params.category],
              id, t)

\* createTicket: the destructuring defaults fill priority and category,
\* and the INSERT lists title, description, priority and category
createTicket(owner, params, id, t) ==
    insertRow(owner,
              [title |-> params.title,
               description |-> params.description,
               priority |-> IF params.priority = NULL THEN "medium" ELSE params.priority,
               category |-> IF params.category = NULL THEN "other" ELSE params.category],
              id, t)

\* SELECT ... WHERE id = $1: the matching rows
rowsWithId(ts, ticketId) == SelectSeq(ts, LAMBDA r : r.id = ticketId)

\* getTicket: [found, ticket]
getTicket(ts, ticketId) ==
    LET rows == rowsWithId(ts, ticketId)
    IN  IF Len(rows) = 0 THEN [found |-> FALSE, ticket |-> NULL]
        ELSE [found |-> TRUE, ticket |-> rows[1]]

\* faulty variant: the UPDATE leaves updated_at as it was
updateTicketStatusStale(ts, ticketId, status, t) ==
    [i \in 1..Len(ts) |->
        IF ts[i].id = ticketId THEN [ts[i] EXCEPT !.status = status] ELSE ts[i]]

\* faulty variant: the UPDATE has no WHERE clause
updateTicketStatusAll(ts, ticketId, status, t) ==
    [i \in 1..Len(ts) |-> [ts[i] EXCEPT !.status = status, !.updatedAt = t]]

\* faulty variant: a closed ticket is not written again
updateTicketStatusGuarded(ts, ticketId, status, t) ==
    [i \in 1..Len(ts) |->
        IF ts[i].id = ticketId /\ ts[i].status /= "closed"
        THEN [ts[i] EXCEPT !.status = status, !.updatedAt = t]
        ELSE ts[i]]

\* UPDATE tickets SET status = $1, updated_at = NOW() WHERE id = $2
updateTicketStatus(ts, ticketId, status, t) ==
    [i \in 1..Len(ts) |->
        IF ts[i].id = ticketId
        THEN [ts[i] EXCEPT !.status = status, !.updatedAt = t]
        ELSE ts[i]]

\* rows kept by listTickets' WHERE clause
matching(ts, status) ==
    IF status /= NULL /\ status /= "all"
    THEN SelectSeq(ts, LAMBDA r : r.status = status)
    ELSE ts

\* ORDER BY created_at DESC: s is ordered newest first
IsNewestFirst(s) ==
    \A i \in 1..Len(s) : \A j \in 1..Len(s) : i < j => s[i].createdAt >= s[j].createdAt

RECURSIVE Orderings(_)
Orderings(s) ==
    IF Len(s) = 0 THEN { <<>> }
    ELSE UNION { { <<s[i]>> \o p :
                     p \in Orderings(SubSeq(s, 1, i - 1) \o SubSeq(s, i + 1, Len(s))) }
                 : i \in 1..Len(s) }

\* faulty variant: the query has no ORDER BY
listTicketsUnordered(ts, status, limit) ==
    { SubSeq(p, 1, Min(limit, Len(p))) : p \in Orderings(matching(ts, status)) }

\* the orderings of s that are newest first: each starts with a row no
\* other row is newer than
RECURSIVE NewestFirst(_)
NewestFirst(s) ==
    IF Len(s) = 0 THEN { <<>> }
    ELSE UNION { { <<s[i]>> \o p :
                     p \in NewestFirst(SubSeq(s, 1, i - 1) \o SubSeq(s, i + 1, Len(s))) }
                 : i \in { k \in 1..Len(s) :
                             \A j \in 1..Len(s) : s[k].createdAt >= s[j].createdAt } }

\* listTickets: every result the query may return (rows with equal
\* created_at come in an order the database chooses)
listTickets(ts, status, limit) ==
    { SubSeq(p, 1, Min(limit, Len(p))) : p \in NewestFirst(matching(ts, status)) }

\* analyzeSystemLogs: the status of the canned record of a system
analyzeSystemLogs(system) ==
    IF system = "email" THEN "warning" ELSE "healthy"

(***************************************************************************)
(* Metrics tracker                                                         *)
(***************************************************************************)
maxEvents == 1000

\* timestamp: new Date()
MetricEvent(type, agent, success, ticketId) ==
    [timestamp |-> wall, type |-> type, agent |-> agent, success |-> success,
     ticketId |-> ticketId]

\* faulty variant: a full log drops the new event
addEventKeepFirst(evs, event) ==
    IF Len(evs) >= maxEvents THEN evs ELSE Append(evs, event)

\* faulty variant: push without the trim
addEventUnbounded(evs, event) == Append(evs, event)

\* addEvent: push, then keep only the last maxEvents
addEvent(evs, event) ==
    LET pushed == Append(evs, event)
    IN  IF Len(pushed) > maxEvents
        THEN SubSeq(pushed, Len(pushed) - maxEvents + 1, Len(pushed))
        ELSE pushed

recordLatency(evs, agent) == addEvent(evs, MetricEvent("latency", agent, TRUE, 0))

\* faulty variant: a route without ground truth counts as wrong
recordRoutingCompared(evs, predictedAgent, actualAgent) ==
    addEvent(evs, MetricEvent("routing", predictedAgent, predictedAgent = actualAgent, 0))

recordRouting(evs, predictedAgent, actualAgent) ==
    LET isCorrect == actualAgent = NULL \/ predictedAgent = actualAgent
    IN  addEvent(evs, MetricEvent("routing", predictedAgent, isCorrect, 0))

recordTicketCreation(evs, success, ticketId) ==
    addEvent(evs, MetricEvent("ticket", NULL, success, ticketId))

recordError(evs, agent) == addEvent(evs, MetricEvent("error", agent, FALSE, 0))

\* events.filter(e => e.type === type)
OfType(evs, type) == SelectSeq(evs, LAMBDA e : e.type = type)

\* Math.round(num / den * 100) / 100, in hundredths
roundedRate(num, den) == (200 * num + den) \div (2 * den)

\* the fraction of successful events, 1 when there is none, in hundredths
successRate(evs) ==
    IF Len(evs) > 0
    THEN roundedRate(Len(SelectSeq(evs, LAMBDA e : e.success)), Len(evs))
    ELSE 100

\* sinceMs ? new Date(Date.now() - sinceMs) : new Date(0); an omitted
\* sinceMs is 0
cutoff(sinceMs, t) == IF sinceMs /= 0 THEN t - sinceMs ELSE 0

relevantEvents(evs, sinceMs, t) ==
    SelectSeq(evs, LAMBDA e : e.timestamp >= cutoff(sinceMs, t))

\* faulty variant: totalRequests counts the requests routed
getSummaryPerRequest(evs, sinceMs, t) ==
    LET relevant == relevantEvents(evs, sinceMs, t)
        totalRequests == Len(OfType(relevant, "routing"))
    IN  [totalRequests |-> totalRequests,
         routingAccuracy |-> successRate(OfType(relevant, "routing")),
         ticketSuccessRate |-> successRate(OfType(relevant, "ticket")),
         errorRate |-> IF totalRequests > 0
                       THEN roundedRate(Len(OfType(relevant, "error")), totalRequests)
                       ELSE 0]

\* getSummary called at time t; the rates in hundredths (durations are not
\* modelled, nor are retrieval events, which the requests do not record)
getSummary(evs, sinceMs, t) ==
    LET relevant == relevantEvents(evs, sinceMs, t)
        totalRequests == Len(OfType(relevant, "latency"))
    IN  [totalRequests |-> totalRequests,
         routingAccuracy |-> successRate(OfType(relevant, "routing")),
         ticketSuccessRate |-> successRate(OfType(relevant, "ticket")),
         errorRate |-> IF totalRequests > 0
                       THEN roundedRate(Len(OfType(relevant, "error")), totalRequests)
                       ELSE 0]

\* getRecentEvents: events.slice(-count)
getRecentEvents(evs, count) ==
    IF count = 0 \/ Len(evs) <= count THEN evs
    ELSE SubSeq(evs, Len(evs) - count + 1, Len(evs))

(***************************************************************************)
(* Workflow dispatcher                                                     *)
(***************************************************************************)
Actions == {"create_ticket", "check_status", "list_tickets", "update_status",
            "password_reset", "analyze_logs", "unknown"}

titleMonitor == <<"B","r","o","k","e","n"," ","M","o","n","i","t","o","r">>
descMonitor == <<"n","o"," ","d","i","s","p","l","a","y">>

\* ticketId: z.number().optional(): left out, or a number
NoId == <<>>
Id(n) == <<n>>

\* !decision.parameters.ticketId: true when the id was left out and when
\* it is the number 0
noTicketId(ticketId) == Len(ticketId) = 0 \/ ticketId[1] = 0

\* ActionSchema: an optional parameter the model left out is NULL (an
\* enum) or the empty string (title, description): the dispatcher reads
\* them through || and !, which treat these alike
Decision(action, title, description, priority, category, ticketId, statusFilter, newStatus, system) ==
    [action |-> action,
     parameters |-> [title |-> title, description |-> description,
                     priority |-> priority, category |-> category,
                     ticketId |-> ticketId, statusFilter |-> statusFilter,
                     newStatus |-> newStatus, system |-> system]]

NoDecision == Decision("unknown", <<>>, <<>>, NULL, NULL, NoId, NULL, NULL, NULL)

\* ticket ids the model extracts: none, 0, a ticket of the initial stores,
\* an id no ticket has
TicketIds == {NoId, Id(0), Id(1), Id(7)}

\* decisions the model returns in the runs explored
Decisions ==
    { Decision("create_ticket", titleMonitor, descMonitor, "high", "hardware", NoId, NULL, NULL, NULL),
      Decision("create_ticket", <<>>, <<>>, NULL, NULL, NoId, NULL, NULL, NULL) }
    \cup { Decision("check_status", <<>>, <<>>, NULL, NULL, id, NULL, NULL, NULL) : id \in TicketIds }
    \cup { Decision("list_tickets", <<>>, <<>>, NULL, NULL, NoId, f, NULL, NULL) : f \in {NULL, "all", "open", "closed"} }
    \cup { Decision("update_status", <<>>, <<>>, NULL, NULL, id, NULL, st, NULL) :
             id \in TicketIds, st \in {NULL, "closed"} }
    \cup { Decision("update_status", <<>>, <<>>, NULL, NULL, Id(1), NULL, "in_progress", NULL),
           Decision("password_reset", <<>>, <<>>, NULL, NULL, NoId, NULL, NULL, NULL),
           Decision("unknown", <<>>, <<>>, NULL, NULL, NoId, NULL, NULL, NULL) }
    \cup { Decision("analyze_logs", <<>>, <<>>, NULL, NULL, NoId, NULL, NULL, sys) : sys \in {NULL, "vpn", "email"} }

\* what generateObject(ActionSchema) resolves to, or a provider error
ExtractOutcomes ==
    { [kind |-> "object", decision |-> d] : d \in Decisions }
        \cup { [kind |-> "error", decision |-> NoDecision] }

\* a message template with the ticket id it interpolates (0: none)
Msg(tpl, id) == [tpl |-> tpl, id |-> id]

NoData == [kind |-> "none"]
TicketData(t) == [kind |-> "ticket", ticket |-> t]
ListData(ts) == [kind |-> "list", list |-> ts]
AnalysisData(system) == [kind |-> "analysis", status |-> analyzeSystemLogs(system)]

WorkflowResult(action, success, message, data) ==
    [action |-> action, success |-> success, message |-> message, data |-> data]

NoResult == WorkflowResult("none", FALSE, Msg("none", 0), NoData)

\* a || b on strings
OrElse(a, b) == IF Len(a) = 0 THEN b ELSE a

\* the keyword pass of update_status over the raw message
inferStatus(query) ==
    LET lowerQuery == toLowerCase(query)
    IN  IF includes(lowerQuery, kwClose) \/ includes(lowerQuery, kwShut)
           \/ includes(lowerQuery, kwDone) \/ includes(lowerQuery, kwComplete)
           \/ includes(lowerQuery, kwFinish)
        THEN "closed"
        ELSE IF includes(lowerQuery, kwResolve) \/ includes(lowerQuery, kwFix)
        THEN "resolved"
        ELSE IF includes(lowerQuery, kwProgress) \/ includes(lowerQuery, kwStart)
                \/ includes(lowerQuery, kwWork) \/ includes(lowerQuery, kwBegin)
        THEN "in_progress"
        ELSE IF includes(lowerQuery, kwReopen) \/ includes(lowerQuery, kwReOpen)
        THEN "open"
        ELSE NULL

\* let status = decision.parameters.newStatus; if (!status) { keyword pass }
targetStatus(d, query) ==
    IF d.parameters.newStatus /= NULL THEN d.parameters.newStatus
    ELSE inferStatus(query)

\* faulty variant: update_status goes to the store without a status
returnsAtOnceUnchecked(d, query) ==
    \/ d.action = "check_status" /\ noTicketId(d.parameters.ticketId)
    \/ d.action = "update_status" /\ noTicketId(d.parameters.ticketId)
    \/ d.action \in {"password_reset", "analyze_logs", "unknown"}

\* the branches of the switch that return without a store call
returnsAtOnce(d, query) ==
    \/ d.action = "check_status" /\ noTicketId(d.parameters.ticketId)
    \/ d.action = "update_status"
         /\ (noTicketId(d.parameters.ticketId) \/ targetStatus(d, query) = NULL)
    \/ d.action \in {"password_reset", "analyze_logs", "unknown"}

resultAtOnce(d, query) ==
    CASE d.action = "check_status" ->
            WorkflowResult("check_status", FALSE, Msg("ask_ticket_number", 0), NoData)
      [] d.action = "update_status" /\ noTicketId(d.parameters.ticketId) ->
            WorkflowResult("update_status", FALSE, Msg("ask_ticket_number", 0), NoData)
      [] d.action = "update_status" /\ ~noTicketId(d.parameters.ticketId) ->
            WorkflowResult("update_status", FALSE, Msg("ask_status", 0), NoData)
      [] d.action = "password_reset" ->
            WorkflowResult("password_reset", TRUE, Msg("password_reset_steps", 0), NoData)
      [] d.action = "analyze_logs" /\ d.parameters.system = NULL ->
            WorkflowResult("analyze_logs", FALSE, Msg("ask_system", 0), NoData)
      [] d.action = "analyze_logs" /\ d.parameters.system /= NULL ->
            WorkflowResult("analyze_logs", TRUE, Msg("analysis", 0),
                           AnalysisData(d.parameters.system))
      [] OTHER ->
            WorkflowResult("unknown", FALSE, Msg("rephrase", 0), NoData)

\* the parameters of the create_ticket branch
dispatchCreateParams(d, query) ==
    CreateParams(OrElse(d.parameters.title, slice(query, 50)),
                 OrElse(d.parameters.description, query),
                 IF d.parameters.priority = NULL THEN "medium" ELSE d.parameters.priority,
                 IF d.parameters.category = NULL THEN "other" ELSE d.parameters.category)

\* faulty variant: the password keywords are tested first
fallbackCreatesUnlessPassword(query) ==
    LET lowerQuery == toLowerCase(query)
    IN  /\ ~(includes(lowerQuery, kwPassword) \/ includes(lowerQuery, kwReset))
        /\ (includes(lowerQuery, kwTicket) \/ includes(lowerQuery, kwBroken)
             \/ includes(lowerQuery, kwIssue) \/ includes(lowerQuery, kwFix))

\* the catch block of executeWorkflow: does it create a ticket
fallbackCreates(query) ==
    LET lowerQuery == toLowerCase(query)
    IN  includes(lowerQuery, kwTicket) \/ includes(lowerQuery, kwBroken)
        \/ includes(lowerQuery, kwIssue) \/ includes(lowerQuery, kwFix)

fallbackCreateParams(query) == CreateParams(slice(query, 50), query, "medium", "other")

\* the catch block's result when it creates no ticket
fallbackResult(query) ==
    LET lowerQuery == toLowerCase(query)
    IN  IF includes(lowerQuery, kwPassword) \/ includes(lowerQuery, kwReset)
        THEN WorkflowResult("password_reset", TRUE, Msg("password_reset_short", 0), NoData)
        ELSE WorkflowResult("unknown", FALSE, Msg("error_helpdesk", 0), NoData)

(***************************************************************************)
(* Escalation handler                                                      *)
(***************************************************************************)
escalationPrefix == <<"E","s","c","a","l","a","t","i","o","n",":"," ">>
ellipsis == <<".",".",".">>
escalationIntro == <<"O","r","i","g","i","n","a","l"," ","r","e","q","u","e","s","t",":"," ">>

\* faulty variant: the title takes the whole message
escalationParamsUntruncated(query) ==
    CreateParams(escalationPrefix \o query \o ellipsis,
                 escalationIntro \o query, "high", "other")

escalationParams(query) ==
    CreateParams(escalationPrefix \o slice(query, 40) \o ellipsis,
                 escalationIntro \o query, "high", "other")

(***************************************************************************)
(* Streaming event protocol                                                *)
(***************************************************************************)
Apology == "I apologize, but I encountered an error. Please try again."

statusEvent(agent) == [type |-> "status", agent |-> agent, content |-> NULL]
textEvent(text) == [type |-> "text", agent |-> NULL, content |-> text]
doneEvent == [type |-> "done", agent |-> NULL, content |-> NULL]

\* faulty variant: the catch block replaces the text sent so far
catchEventsRetracting(evs) ==
    Append(Append(SelectSeq(evs, LAMBDA e : e.type /= "text"), textEvent(Apology)), doneEvent)

\* faulty variant: the catch block emits the apology without done
catchEventsNoDone(evs) == Append(evs, textEvent(Apology))

\* the catch block of start(): the apology text, then done
catchEvents(evs) == Append(Append(evs, textEvent(Apology)), doneEvent)

\* faulty variant: the catch block classifies again
catchCallsRetry(cs) == Append(cs, "classifyRequest")

\* the calls the catch block of start() makes: none
catchCalls(cs) == cs

\* faulty variant: the try block closes the stream without done
finishEventsNoDone(evs) == evs

\* the end of the try block of start(): done
finishEvents(evs) == Append(evs, doneEvent)

\* faulty variant: the knowledge and workflow branches are swapped
handlerForSwapped(i) ==
    IF i = "knowledge" THEN "workflow"
    ELSE IF i = "workflow" THEN "knowledge"
    ELSE "escalation"

\* faulty variant: only the escalation label is escalated
handlerForStrict(i) ==
    IF i = "escalation" THEN "escalation"
    ELSE IF i = "workflow" THEN "workflow"
    ELSE "knowledge"

\* the branch of "Step 2: Route to appropriate agent" an intent takes
handlerFor(i) ==
    IF i = "knowledge" THEN "knowledge"
    ELSE IF i = "workflow" THEN "workflow"
    ELSE "escalation"

statusName(handler) ==
    CASE handler = "knowledge" -> "Knowledge"
      [] handler = "workflow" -> "Workflow"
      [] OTHER -> "Escalation"

\* faulty variant: the status event is not enqueued
enqueueStatusDropped(evs, agent) == evs

\* controller.enqueue of a status event; the plain route has no stream
enqueueStatus(evs, agent) ==
    IF route = "stream" THEN Append(evs, statusEvent(agent)) ELSE evs

(***************************************************************************)
(* Initial states                                                          *)
(***************************************************************************)
listLimit == 5
defaultLimit == 10
apiLimit == 50

\* no statement has run yet
NoOp == [name |-> "none", id |-> 0, status |-> NULL, found |-> FALSE, repeat |-> FALSE]

EmptyStore == [tickets |-> <<>>, nextId |-> 1, now |-> 0]

\* the store after one createTicket
OneTicketStore ==
    [tickets |-> << createTicket("core", CreateParams(titleMonitor, descMonitor, "high", "hardware"), 1, 0) >>,
     nextId |-> 2, now |-> 0]

\* the store after a second createTicket and updateTicketStatus(1, "closed")
TwoTicketStore ==
    [tickets |-> updateTicketStatus(
                    Append(OneTicketStore.tickets,
                           createTicket("core", fallbackCreateParams(msgMonitor), 2, 0)),
                    1, "closed", 1),
     nextId |-> 3, now |-> 1]

InitStores == {EmptyStore, OneTicketStore, TwoTicketStore}

\* the store after seven createTicket calls, three at time 0, three at time
\* 1 and one at time 2, and updateTicketStatus(7, "closed")
SevenTicketStore ==
    [tickets |-> updateTicketStatus(
                    [i \in 1..7 |-> createTicket("core", fallbackCreateParams(msgMonitor),
                                                 i, (i - 1) \div 3)],
                    7, "closed", 2),
     nextId |-> 8, now |-> 2]

\* stores with more tickets than listTickets returns, and stores where a
\* filter matches nothing
ListStores == {EmptyStore, OneTicketStore, SevenTicketStore}

Bodies == { StringBody(m) : m \in RequestMessages } \cup {UndefinedBody, EmptyBody}

\* the metrics route was not called yet
NoRead == [kind |-> "none"]

\* no other request is in flight and nobody reads the metrics
TrackerIdle ==
    /\ wall = 0
    /\ inflight = << >>
    /\ history = << >>
    /\ lastRead = NoRead

InitWith(bodies, routes, stores) ==
    /\ TrackerIdle
    /\ route \in routes
    /\ intakeCopy \in {"part_002", "intake_agent"}
    /\ body \in bodies
    /\ \E st \in stores :
          /\ tickets = st.tickets
          /\ nextId = st.nextId
          /\ now = st.now
    /\ pc = "idle"
    /\ llmIntent = [kind |-> "none", value |-> NULL]
    /\ intent = NULL
    /\ decision = NoDecision
    /\ agentResult = Msg("none", 0)
    /\ workflowResult = NoResult
    /\ events = <<>>
    /\ closed = FALSE
    /\ failedAt = "none"
    /\ calls = <<>>
    /\ raised = <<>>
    /\ chunks = 0
    /\ metricsEvents = <<>>
    /\ tableOwner = "core"
    /\ lastOp = NoOp
    /\ given = <<>>

Init == InitWith(Bodies, {"stream", "plain"}, InitStores)

(***************************************************************************)
(* POST                                                                    *)
(***************************************************************************)
config == <<route, intakeCopy, body>>
tracker == <<wall, inflight, history, lastRead>>
audit == <<tableOwner, lastOp, given>>
store == <<tickets, nextId, now>>

\* the catch block of start() after the await of `stage` rejected; the
\* plain route has no catch and POST rejects
Catch(stage, evs, cs, mevs, rs) ==
    /\ failedAt' = stage
    /\ calls' = catchCalls(cs)
    /\ raised' = rs
    /\ metricsEvents' = mevs
    /\ UNCHANGED agentResult
    /\ IF route = "stream"
       THEN /\ events' = catchEvents(evs)
            /\ closed' = TRUE
            /\ pc' = "closed"
       ELSE /\ events' = evs
            /\ closed' = closed
            /\ pc' = "rejected"

\* "Step 3: Generate final response": the handler resolved; its latency
\* (and ticket metric) recorded in mevs
ToSynthesis(message, cs, mevs) ==
    /\ agentResult' = message
    /\ metricsEvents' = mevs
    /\ calls' = Append(cs, "streamText")
    /\ events' = enqueueStatus(events, "Response")
    /\ pc' = IF route = "stream" THEN "synthesizing" ELSE "responded"
    /\ UNCHANGED <<closed, failedAt>>

\* const { messages } = await req.json(); ... the Intake status and the
\* call of classifyRequest
Post ==
    /\ pc = "idle"
    /\ IF body.kind = "empty"
       THEN /\ pc' = "rejected"
            /\ failedAt' = "Request"
            /\ UNCHANGED <<events, calls>>
       ELSE /\ pc' = "classifying"
            /\ events' = enqueueStatus(events, "Intake")
            /\ calls' = <<"classifyRequest", "generateObject">>
            /\ UNCHANGED failedAt
    /\ UNCHANGED <<config, tracker, audit, store, llmIntent, intent, decision, agentResult,
                   workflowResult, closed, raised, chunks, metricsEvents>>

\* the rest of POST once classifyRequest resolved with i: the routing
\* metric, the handler's status event and the handler's first call
Dispatch(i, mevs, rs) ==
    LET h == handlerFor(i)
        evs == enqueueStatus(events, statusName(h))
    IN  /\ intent' = i
        /\ IF h = "knowledge"
           THEN /\ pc' = "answering"
                /\ events' = evs
                /\ calls' = Append(calls, "answerWithKnowledge")
                /\ metricsEvents' = mevs
                /\ raised' = rs
                /\ UNCHANGED <<closed, failedAt, agentResult>>
           ELSE IF h = "workflow"
           THEN /\ pc' = "extracting"
                /\ events' = evs
                /\ calls' = calls \o <<"executeWorkflow", "generateObject">>
                /\ metricsEvents' = mevs
                /\ raised' = rs
                /\ UNCHANGED <<closed, failedAt, agentResult>>
           ELSE IF body.kind = "string"
           THEN /\ pc' = "escalating"
                /\ events' = evs
                /\ calls' = calls \o <<"escalateToHuman", "createTicket">>
                /\ metricsEvents' = mevs
                /\ raised' = rs
                /\ UNCHANGED <<closed, failedAt, agentResult>>
           ELSE \* query.slice of a message that is no string raises
                Catch("Handling", evs, Append(calls, "escalateToHuman"),
                      recordError(mevs, "escalation"), Append(rs, "escalateToHuman"))

\* await withLatencyTracking("intake", () => classifyRequest(lastMessage))
ClassifyReturn ==
    /\ pc = "classifying"
    /\ \E llm \in ClassifyOutcomes :
        \E r \in { classifyRequest(intakeCopy, body, llm) } :
          LET rs == IF generateObjectIntent(llm).ok
                    THEN raised ELSE Append(raised, "generateObject")
          IN  /\ llmIntent' = llm
              /\ IF r.ok
                 THEN Dispatch(r.value,
                               recordRouting(recordLatency(metricsEvents, "intake"),
                                             r.value, NULL),
                               rs)
                 ELSE /\ Catch("Classifying", events, calls,
                               recordError(metricsEvents, "intake"),
                               Append(rs, "classifyRequest"))
                      /\ UNCHANGED intent
    /\ UNCHANGED <<config, tracker, audit, store, decision, workflowResult, chunks>>

\* await withLatencyTracking("knowledge", () => answerWithKnowledge(...)):
\* answerWithKnowledge catches every error and resolves to a string
KnowledgeReturn ==
    /\ pc = "answering"
    /\ \E tpl \in {"kb_answer", "kb_none", "kb_error"} :
          ToSynthesis(Msg(tpl, 0), calls, recordLatency(metricsEvents, "knowledge"))
    /\ UNCHANGED <<config, tracker, audit, store, llmIntent, intent, decision, workflowResult,
                   raised, chunks>>

(***************************************************************************)
(* executeWorkflow inside POST                                             *)
(***************************************************************************)
\* the store function a dispatched action calls
storeCall(d) ==
    CASE d.action = "create_ticket" -> "createTicket"
      [] d.action = "check_status" -> "getTicket"
      [] d.action = "list_tickets" -> "listTickets"
      [] OTHER -> "updateTicketStatus"

\* query.slice and query.toLowerCase raise on a message that is no string
dispatchThrows(d, b) ==
    /\ b.kind /= "string"
    /\ \/ d.action = "create_ticket" /\ Len(d.parameters.title) = 0
       \/ d.action = "update_status" /\ ~noTicketId(d.parameters.ticketId)
            /\ d.parameters.newStatus = NULL

\* workflowResult.data && "id" in workflowResult.data ? data.id : undefined
resultTicketId(result) ==
    IF result.data.kind = "ticket" THEN result.data.ticket.id ELSE 0

\* faulty variant: a ticket metric for every action
workflowMetricsAlways(mevs, result) ==
    recordTicketCreation(recordLatency(mevs, "workflow"), result.success,
                         resultTicketId(result))

\* the metrics POST records once executeWorkflow resolved
workflowMetrics(mevs, result) ==
    LET timed == recordLatency(mevs, "workflow")
    IN  IF result.action = "create_ticket"
        THEN recordTicketCreation(timed, result.success, resultTicketId(result))
        ELSE timed

\* executeWorkflow resolved with result
WorkflowDone(result, cs, rs) ==
    \E res \in { result } :
        /\ workflowResult' = res
        /\ raised' = rs
        /\ ToSynthesis(res.message, cs, workflowMetrics(metricsEvents, res))

\* the catch block of executeWorkflow
WorkflowCatch(cs, rs) ==
    IF body.kind /= "string"
    THEN /\ Catch("Handling", events, cs, recordError(metricsEvents, "workflow"),
                  Append(rs, "executeWorkflow"))
         /\ UNCHANGED workflowResult
    ELSE IF fallbackCreates(body.text)
    THEN /\ pc' = "fallback_creating"
         /\ calls' = Append(cs, "createTicket")
         /\ raised' = rs
         /\ UNCHANGED <<events, closed, failedAt, metricsEvents, agentResult, workflowResult>>
    ELSE WorkflowDone(fallbackResult(body.text), cs, rs)

\* const { object: decision } = await generateObject({schema: ActionSchema})
\* and the switch up to its first store call
ExtractReturn ==
    /\ pc = "extracting"
    /\ \E o \in ExtractOutcomes :
          IF o.kind = "error"
          THEN /\ WorkflowCatch(calls, Append(raised, "generateObject"))
               /\ UNCHANGED decision
          ELSE /\ decision' = o.decision
               /\ IF dispatchThrows(o.decision, body)
                  THEN WorkflowCatch(calls, Append(raised, "switch"))
                  ELSE IF returnsAtOnce(o.decision, body.text)
                  THEN WorkflowDone(resultAtOnce(o.decision, body.text), calls, raised)
                  ELSE /\ pc' = "dispatching"
                       /\ calls' = Append(calls, storeCall(o.decision))
                       /\ UNCHANGED <<events, closed, failedAt, metricsEvents,
                                      agentResult, workflowResult, raised>>
    /\ UNCHANGED <<config, tracker, audit, store, llmIntent, intent, chunks>>

\* NOW() of a statement: the clock at or after the last one seen
Clock == now..Min(now + 1, MaxClock)

\* the awaited store call of the switch returned or raised
StoreReturn ==
    /\ pc = "dispatching"
    /\ \/ /\ WorkflowCatch(calls, Append(raised, storeCall(decision)))
          /\ UNCHANGED store
       \/ /\ decision.action = "create_ticket"
          /\ \E t \in Clock :
                LET ticket == createTicket(tableOwner, dispatchCreateParams(decision, body.text), nextId, t)
                IN  /\ tickets' = Append(tickets, ticket)
                    /\ nextId' = nextId + 1
                    /\ now' = t
                    /\ WorkflowDone(WorkflowResult("create_ticket", TRUE,
                                                   Msg("created", ticket.id), TicketData(ticket)),
                                    calls, raised)
       \/ /\ decision.action = "check_status"
          /\ LET id == decision.parameters.ticketId[1]
                 r == getTicket(tickets, id)
             IN  IF r.found
                 THEN WorkflowDone(WorkflowResult("check_status", TRUE,
                                                  Msg("ticket_details", r.ticket.id),
                                                  TicketData(r.ticket)),
                                   calls, raised)
                 ELSE WorkflowDone(WorkflowResult("check_status", FALSE,
                                                  Msg("couldnt_find", id),
                                                  NoData),
                                   calls, raised)
          /\ UNCHANGED store
       \/ /\ decision.action = "list_tickets"
          /\ \E found \in listTickets(tickets,
                                      IF decision.parameters.statusFilter = NULL
                                      THEN "all" ELSE decision.parameters.statusFilter,
                                      listLimit) :
                IF Len(found) = 0
                THEN WorkflowDone(WorkflowResult("list_tickets", TRUE, Msg("no_tickets", 0),
                                                 ListData(<<>>)),
                                  calls, raised)
                ELSE WorkflowDone(WorkflowResult("list_tickets", TRUE, Msg("ticket_list", 0),
                                                 ListData(found)),
                                  calls, raised)
          /\ UNCHANGED store
       \/ /\ decision.action = "update_status"
          /\ \E t \in Clock :
                LET id == decision.parameters.ticketId[1]
                    updated == updateTicketStatus(tickets, id,
                                                  targetStatus(decision, body.text), t)
                    r == getTicket(updated, id)
                IN  /\ tickets' = updated
                    /\ now' = t
                    /\ UNCHANGED nextId
                    /\ IF r.found
                       THEN WorkflowDone(WorkflowResult("update_status", TRUE,
                                                        Msg("updated", r.ticket.id),
                                                        TicketData(r.ticket)),
                                         calls, raised)
                       ELSE WorkflowDone(WorkflowResult("update_status", FALSE,
                                                        Msg("couldnt_find", id), NoData),
                                         calls, raised)
    /\ UNCHANGED <<config, tracker, audit, llmIntent, intent, decision, chunks>>

\* the awaited createTicket of executeWorkflow's catch block returned or
\* raised; a raise here rejects executeWorkflow
FallbackCreateReturn ==
    /\ pc = "fallback_creating"
    /\ \/ /\ Catch("Handling", events, calls, recordError(metricsEvents, "workflow"),
                   raised \o <<"createTicket", "executeWorkflow">>)
          /\ UNCHANGED <<store, workflowResult>>
       \/ \E t \in Clock :
             LET ticket == createTicket(tableOwner, fallbackCreateParams(body.text), nextId, t)
             IN  /\ tickets' = Append(tickets, ticket)
                 /\ nextId' = nextId + 1
                 /\ now' = t
                 /\ WorkflowDone(WorkflowResult("create_ticket", TRUE,
                                                Msg("created_fallback", ticket.id),
                                                TicketData(ticket)),
                                 calls, raised)
    /\ UNCHANGED <<config, tracker, audit, llmIntent, intent, decision, chunks>>

\* await withLatencyTracking("escalation", () => escalateToHuman(...)):
\* the createTicket of escalateToHuman returned or raised
EscalationReturn ==
    /\ pc = "escalating"
    /\ \/ /\ Catch("Handling", events, calls, recordError(metricsEvents, "escalation"),
                   raised \o <<"createTicket", "escalateToHuman">>)
          /\ UNCHANGED store
       \/ \E t \in Clock :
             LET ticket == createTicket(tableOwner, escalationParams(body.text), nextId, t)
             IN  /\ tickets' = Append(tickets, ticket)
                 /\ nextId' = nextId + 1
                 /\ now' = t
                 /\ raised' = raised
                 /\ ToSynthesis(Msg("escalated", ticket.id), calls,
                                recordTicketCreation(
                                    recordLatency(metricsEvents, "escalation"),
                                    TRUE, ticket.id))
    /\ UNCHANGED <<config, tracker, audit, llmIntent, intent, decision, workflowResult, chunks>>

(***************************************************************************)
(* Synthesis                                                               *)
(***************************************************************************)
\* for await (const chunk of result.textStream): one more chunk
SynthChunk ==
    /\ pc = "synthesizing"
    /\ chunks < MaxChunks
    /\ chunks' = chunks + 1
    /\ events' = Append(events, textEvent("chunk"))
    /\ UNCHANGED <<config, tracker, audit, store, pc, llmIntent, intent, decision, agentResult, workflowResult,
                   closed, failedAt, calls, raised, metricsEvents>>

\* the stream ended: done, controller.close()
SynthEnd ==
    /\ pc = "synthesizing"
    /\ events' = finishEvents(events)
    /\ closed' = TRUE
    /\ pc' = "closed"
    /\ UNCHANGED <<config, tracker, audit, store, llmIntent, intent, decision, agentResult,
                   workflowResult, failedAt, calls, raised, chunks, metricsEvents>>

\* the stream raised
SynthRaise ==
    /\ pc = "synthesizing"
    /\ Catch("Synthesizing", events, calls, metricsEvents, Append(raised, "streamText"))
    /\ UNCHANGED <<config, tracker, audit, store, llmIntent, intent, decision, workflowResult, chunks>>

Next ==
    \/ Post
    \/ ClassifyReturn
    \/ KnowledgeReturn
    \/ ExtractReturn
    \/ StoreReturn
    \/ FallbackCreateReturn
    \/ EscalationReturn
    \/ SynthChunk
    \/ SynthEnd
    \/ SynthRaise

Spec == Init /\ [][Next]_vars

FairSpec == Spec /\ WF_vars(Next)

\* requests on stores that hold more tickets than a list returns
InitList == InitWith({StringBody(msgMonitor)}, {"stream"}, ListStores)

SpecList == InitList /\ [][Next]_vars

\* the classifier alone, on every message built from the fragments
InitClassify ==
    InitWith({ StringBody(m) : m \in Messages }, {"stream"}, {EmptyStore})

NextClassify == Post \/ ClassifyReturn

SpecClassify == InitClassify /\ [][NextClassify]_vars

(***************************************************************************)
(* The ticket store under its callers: requests served concurrently, the  *)
(* MCP server and the tickets route each run one statement at a time on   *)
(* the shared table, in any order                                          *)
(***************************************************************************)
request == <<pc, llmIntent, intent, decision, agentResult, events, closed, failedAt,
             calls, workflowResult, raised, chunks, metricsEvents>>

\* the statement that ran last: its name, the id it addressed, the status it
\* wrote, whether it returned a row, and whether the row already had that
\* status
Op(name, id, status, found, repeat) ==
    [name |-> name, id |-> id, status |-> status, found |-> found, repeat |-> repeat]

\* create_ticket of the MCP server: the zod defaults of priority and
\* category, then the INSERT listing the four columns
mcpCreateTicket(owner, args, id, t) ==
    insertRow(owner,
              [title |-> args.title,
               description |-> args.description,
               priority |-> IF args.priority = NULL THEN "medium" ELSE args.priority,
               category |-> IF args.category = NULL THEN "other" ELSE args.category],
              id, t)

\* the createTicket calls of the workflow dispatcher, of its keyword
\* fallback and of the escalation handler, and a call that leaves the
\* optional fields out
CreateRequests ==
    { dispatchCreateParams(Decision("create_ticket", titleMonitor, descMonitor, "high", "hardware", NoId, NULL, NULL, NULL), msgMonitor),
      fallbackCreateParams(msgLong),
      escalationParams(msgLong),
      CreateParams(titleMonitor, descMonitor, NULL, NULL) }

\* arguments of the MCP create_ticket tool
McpCreateRequests ==
    { CreateParams(titleMonitor, descMonitor, NULL, NULL),
      CreateParams(titleMonitor, descMonitor, "high", "hardware") }

\* ticket ids the callers ask for: at least one of them is no ticket's id
StoreIds == 1..(MaxTickets + 1)

\* the statuses the callers write: closing a ticket and opening it again
UpdateStatuses == {"open", "closed"}

\* NOW() of the statements run on the table
StoreClock == now..Min(now + 1, MaxStoreClock)

\* the history entry of a ticket after a status update
touch(hist, ticketId) ==
    [i \in 1..Len(hist) |->
        IF hist[i].id = ticketId THEN [hist[i] EXCEPT !.touched = TRUE] ELSE hist[i]]

InitStore ==
    /\ TrackerIdle
    /\ route = "stream"
    /\ intakeCopy = "part_002"
    /\ body = EmptyBody
    /\ pc = "store"
    /\ llmIntent = [kind |-> "none", value |-> NULL]
    /\ intent = NULL
    /\ decision = NoDecision
    /\ agentResult = Msg("none", 0)
    /\ workflowResult = NoResult
    /\ events = <<>>
    /\ closed = FALSE
    /\ failedAt = "none"
    /\ calls = <<>>
    /\ raised = <<>>
    /\ chunks = 0
    /\ metricsEvents = <<>>
    /\ tableOwner = "none"
    /\ tickets = <<>>
    /\ nextId = 1
    /\ now = 0
    /\ lastOp = NoOp
    /\ given = <<>>

\* ensureTable of a component, without a statement after it
EnsureTable ==
    /\ pc = "store"
    /\ tableOwner = "none"
    /\ \E component \in TableOwners : tableOwner' = component
    /\ lastOp' = Op("ensureTable", 0, NULL, FALSE, FALSE)
    /\ UNCHANGED <<config, tracker, request, tickets, nextId, now, given>>

\* an INSERT that fails after it drew its id: the sequence does not go back
InsertFails ==
    /\ pc = "store"
    /\ tableOwner /= "none"
    /\ nextId = Len(tickets) + 1
    /\ nextId' = nextval(nextId)
    /\ lastOp' = Op("insertFailed", nextId, NULL, FALSE, FALSE)
    /\ UNCHANGED <<config, tracker, request, tableOwner, tickets, now, given>>

\* createTicket of the ticket service
StoreCreate ==
    /\ pc = "store"
    /\ Len(tickets) < MaxTickets
    /\ \E params \in CreateRequests : \E t \in StoreClock :
          LET owner == ensureTable(tableOwner, "core")
              ticket == createTicket(owner, params, nextId, t)
          IN  /\ tableOwner' = owner
              /\ tickets' = Append(tickets, ticket)
              /\ nextId' = nextval(nextId)
              /\ now' = t
              /\ lastOp' = Op("createTicket", ticket.id, NULL, TRUE, FALSE)
              /\ given' = Append(given, [id |-> ticket.id, params |-> params,
                                         touched |-> FALSE])
    /\ UNCHANGED <<config, tracker, request>>

\* create_ticket of the MCP server
McpCreate ==
    /\ pc = "store"
    /\ Len(tickets) < MaxTickets
    /\ \E args \in McpCreateRequests : \E t \in StoreClock :
          LET owner == ensureTable(tableOwner, "mcp")
              ticket == mcpCreateTicket(owner, args, nextId, t)
          IN  /\ tableOwner' = owner
              /\ tickets' = Append(tickets, ticket)
              /\ nextId' = nextval(nextId)
              /\ now' = t
              /\ lastOp' = Op("createTicket", ticket.id, NULL, TRUE, FALSE)
              /\ given' = Append(given, [id |-> ticket.id, params |-> args,
                                         touched |-> FALSE])
    /\ UNCHANGED <<config, tracker, request>>

\* getTicket of the ticket service, get_ticket of the MCP server
StoreGet(component) ==
    /\ pc = "store"
    /\ \E ticketId \in StoreIds :
          /\ tableOwner' = ensureTable(tableOwner, component)
          /\ lastOp' = Op("getTicket", ticketId, NULL, getTicket(tickets, ticketId).found, FALSE)
    /\ UNCHANGED <<config, tracker, request, tickets, nextId, now, given>>

\* listTickets of the ticket service, list_tickets of the MCP server, GET
\* of the tickets route
StoreList(component) ==
    /\ pc = "store"
    /\ \E status \in {"all", "open"} :
        \E rows \in listTickets(tickets, IF component = "api" THEN "all" ELSE status,
                                 IF component = "api" THEN apiLimit ELSE defaultLimit) :
          /\ tableOwner' = ensureTable(tableOwner, component)
          /\ lastOp' = Op("listTickets", 0, NULL, Len(rows) > 0, FALSE)
    /\ UNCHANGED <<config, tracker, request, tickets, nextId, now, given>>

\* updateTicketStatus of the ticket service, update_ticket_status of the
\* MCP server: the same UPDATE
StoreUpdate(component) ==
    /\ pc = "store"
    /\ \E ticketId \in StoreIds : \E status \in UpdateStatuses : \E t \in StoreClock :
          LET row == getTicket(tickets, ticketId)
              updated == updateTicketStatus(tickets, ticketId, status, t)
              returned == rowsWithId(updated, ticketId)
          IN  /\ tableOwner' = ensureTable(tableOwner, component)
              /\ tickets' = updated
              /\ now' = t
              /\ lastOp' = Op("updateTicketStatus", ticketId, status, Len(returned) > 0,
                              row.found /\ row.ticket.status = status)
              /\ given' = touch(given, ticketId)
    /\ UNCHANGED <<config, tracker, request, nextId>>

NextStore ==
    \/ EnsureTable
    \/ InsertFails
    \/ StoreCreate
    \/ McpCreate
    \/ StoreGet("core")
    \/ StoreGet("mcp")
    \/ StoreList("core")
    \/ StoreList("mcp")
    \/ StoreList("api")
    \/ StoreUpdate("core")
    \/ StoreUpdate("mcp")

SpecStore == InitStore /\ [][NextStore]_vars

(***************************************************************************)
(* The metrics tracker under its callers: requests in flight run POST's    *)
(* code between two awaits as one step each, in any order, on the shared   *)
(* tracker, while the metrics route reads it. The continuation of          *)
(* `await withLatencyTracking(...)` runs in a later turn than the          *)
(* recordLatency inside withLatencyTracking, so the two are two steps.     *)
(***************************************************************************)
post == <<pc, llmIntent, intent, decision, agentResult, events, closed, failedAt,
          calls, workflowResult, raised, chunks>>

\* the windows and the tail the metrics route asks for, in hours and events
hourWindow == 1
dayWindow == 24
recentCount == 20

Requests == 1..MaxRequests

\* a request: where POST stands, the classification, the handler's result
\* and the events it has recorded so far
Request(at, label, result, recorded) ==
    [pc |-> at, intent |-> label, result |-> result, recorded |-> recorded]

NoOutcome == [action |-> "none", success |-> FALSE]

\* what a handler may resolve to, as far as the metrics read it
HandlerResults(h) ==
    IF h = "workflow"
    THEN [action : {"create_ticket", "check_status"}, success : {TRUE}]
    ELSE IF h = "escalation"
    THEN {[action |-> "escalated", success |-> TRUE]}
    ELSE {[action |-> "answer", success |-> TRUE]}

\* the log after k events of earlier requests: knowledge requests that
\* completed at time 0, more than an hour before the requests in flight
\* arrive; these run for a minute at most (maxDuration), within one hour
\* of the clock
Backlog(k) ==
    [i \in 1..k |->
        CASE i % 3 = 1 -> [timestamp |-> 0, type |-> "latency", agent |-> "intake",
                           success |-> TRUE, ticketId |-> 0]
          [] i % 3 = 2 -> [timestamp |-> 0, type |-> "routing", agent |-> "knowledge",
                           success |-> TRUE, ticketId |-> 0]
          [] OTHER -> [timestamp |-> 0, type |-> "latency", agent |-> "knowledge",
                       success |-> TRUE, ticketId |-> 0]]

\* an empty log, and a log one event short of full
Backlogs == {0, maxEvents - 1}

InitMetrics ==
    /\ route = "stream"
    /\ intakeCopy = "part_002"
    /\ body = EmptyBody
    /\ pc = "metrics"
    /\ llmIntent = [kind |-> "none", value |-> NULL]
    /\ intent = NULL
    /\ decision = NoDecision
    /\ agentResult = Msg("none", 0)
    /\ workflowResult = NoResult
    /\ events = <<>>
    /\ closed = FALSE
    /\ failedAt = "none"
    /\ calls = <<>>
    /\ raised = <<>>
    /\ chunks = 0
    /\ tickets = <<>>
    /\ nextId = 1
    /\ now = 0
    /\ tableOwner = "core"
    /\ lastOp = NoOp
    /\ given = <<>>
    /\ wall = hourWindow + 1
    /\ \E k \in Backlogs :
          /\ metricsEvents = Backlog(k)
          /\ history = [i \in 1..k |-> [request |-> 0, event |-> Backlog(k)[i]]]
    /\ inflight = [r \in Requests |-> Request("idle", NULL, NoOutcome, << >>)]
    /\ lastRead = NoRead

\* request r makes a record call of the tracker: logged is what the call
\* makes of the log, alone what it makes of an empty log
Records(r, at, label, result, logged, alone) ==
    LET event == alone[1]
    IN  /\ metricsEvents' = logged
        /\ history' = Append(history, [request |-> r, event |-> event])
        /\ inflight' = [inflight EXCEPT ![r] =
                            Request(at, label, result, Append(@.recorded, event))]

\* POST up to its first await: withLatencyTracking("intake", ...) has
\* called classifyRequest; the requests are numbered as they arrive
Arrive(r) ==
    /\ pc = "metrics"
    /\ inflight[r].pc = "idle"
    /\ \A q \in 1..(r - 1) : inflight[q].pc /= "idle"
    /\ inflight' = [inflight EXCEPT ![r].pc = "classifying"]
    /\ UNCHANGED <<config, audit, store, post, metricsEvents, wall, history, lastRead>>

\* withLatencyTracking("intake", ...) after its await: classifyRequest
\* resolved (recordLatency, return) or rejected (recordError, throw)
IntakeSettles(r) ==
    /\ pc = "metrics"
    /\ inflight[r].pc = "classifying"
    /\ \/ \E i \in Intents :
             Records(r, "classified", i, NoOutcome,
                     recordLatency(metricsEvents, "intake"), recordLatency(<< >>, "intake"))
       \/ Records(r, "failed", NULL, NoOutcome,
                  recordError(metricsEvents, "intake"), recordError(<< >>, "intake"))
    /\ UNCHANGED <<config, audit, store, post, wall, lastRead>>

\* POST after the await of the intake stage: recordRouting, the status
\* event and the call of the handler inside withLatencyTracking
Route(r) ==
    /\ pc = "metrics"
    /\ inflight[r].pc = "classified"
    /\ Records(r, "handling", inflight[r].intent, NoOutcome,
               recordRouting(metricsEvents, inflight[r].intent, NULL),
               recordRouting(<< >>, inflight[r].intent, NULL))
    /\ UNCHANGED <<config, audit, store, post, wall, lastRead>>

\* withLatencyTracking(handler, ...) after its await: the handler resolved
\* or rejected; answerWithKnowledge never rejects
HandlerSettles(r) ==
    /\ pc = "metrics"
    /\ inflight[r].pc = "handling"
    /\ LET h == handlerFor(inflight[r].intent)
       IN  \/ \E result \in HandlerResults(h) :
                 Records(r, "handled", inflight[r].intent, result,
                         recordLatency(metricsEvents, h), recordLatency(<< >>, h))
           \/ /\ h /= "knowledge"
              /\ Records(r, "failed", inflight[r].intent, NoOutcome,
                         recordError(metricsEvents, h), recordError(<< >>, h))
    /\ UNCHANGED <<config, audit, store, post, wall, lastRead>>

\* POST after the await of the handler stage, up to the synthesis: the
\* ticket metric of a create_ticket result and of every escalation
AfterHandler(r) ==
    /\ pc = "metrics"
    /\ inflight[r].pc = "handled"
    /\ LET h == handlerFor(inflight[r].intent)
           result == inflight[r].result
       IN  IF h = "workflow" /\ result.action = "create_ticket"
           THEN Records(r, "done", inflight[r].intent, result,
                        recordTicketCreation(metricsEvents, result.success,
                                             IF result.success THEN r ELSE 0),
                        recordTicketCreation(<< >>, result.success,
                                             IF result.success THEN r ELSE 0))
           ELSE IF h = "escalation"
           THEN Records(r, "done", inflight[r].intent, result,
                        recordTicketCreation(metricsEvents, TRUE, r),
                        recordTicketCreation(<< >>, TRUE, r))
           ELSE /\ inflight' = [inflight EXCEPT ![r].pc = "done"]
                /\ UNCHANGED <<metricsEvents, history>>
    /\ UNCHANGED <<config, audit, store, post, wall, lastRead>>

\* GET of the metrics route
MetricsGet ==
    /\ pc = "metrics"
    /\ lastRead' = [kind |-> "read",
                    lastHour |-> getSummary(metricsEvents, hourWindow, wall),
                    last24Hours |-> getSummary(metricsEvents, dayWindow, wall),
                    recentEvents |-> getRecentEvents(metricsEvents, recentCount)]
    /\ UNCHANGED <<config, audit, store, post, metricsEvents, wall, inflight, history>>

NextMetrics ==
    \/ \E r \in Requests : Arrive(r)
    \/ \E r \in Requests : IntakeSettles(r)
    \/ \E r \in Requests : Route(r)
    \/ \E r \in Requests : HandlerSettles(r)
    \/ \E r \in Requests : AfterHandler(r)
    \/ MetricsGet

SpecMetrics == InitMetrics /\ [][NextMetrics]_vars

(***************************************************************************)
(* Properties                                                              *)
(***************************************************************************)
Count(seq, x) == Cardinality({ i \in 1..Len(seq) : seq[i] = x })

TextEvents(evs) == SelectSeq(evs, LAMBDA e : e.type = "text")

HandlerCalls == {"answerWithKnowledge", "executeWorkflow", "escalateToHuman"}
StoreCalls == {"createTicket", "getTicket", "listTickets", "updateTicketStatus"}

NumHandlerCalls == Cardinality({ i \in 1..Len(calls) : calls[i] \in HandlerCalls })

HandlingPcs == {"answering", "extracting", "dispatching", "fallback_creating", "escalating"}

\* the state of the per-request state machine
Stage ==
    CASE pc = "idle" -> "Idle"
      [] pc = "classifying" -> "Classifying"
      [] pc \in HandlingPcs -> "Handling"
      [] pc = "synthesizing" -> "Synthesizing"
      [] OTHER -> IF failedAt = "none" THEN "Done" ELSE "Error"

StoreRaised == \E i \in 1..Len(raised) : raised[i] \in StoreCalls

ModelRaised == \E i \in 1..Len(raised) : raised[i] = "generateObject"

\* C1: on the streaming route, on the success path and on every error
\* path, a done event is the last event of the stream and the only one,
\* and the stream is closed exactly when done was emitted
C1_DoneOnceAndLast ==
    route = "stream" =>
        /\ \A i \in 1..Len(events) : events[i].type = "done" => i = Len(events)
        /\ closed => Len(events) > 0 /\ events[Len(events)] = doneEvent
        /\ Count(events, doneEvent) = 1 => closed
        /\ pc = "closed" <=> closed

C1_Witness ==
    /\ route = "stream" /\ closed
    /\ failedAt = "Synthesizing" /\ chunks = MaxChunks
    /\ Count(events, doneEvent) = 1

StageSteps ==
    { <<"Classifying", "Handling">>, <<"Handling", "Synthesizing">>,
      <<"Synthesizing", "Done">>, <<"Classifying", "Error">>,
      <<"Handling", "Error">>, <<"Synthesizing", "Error">> }

\* C2: a request on the streaming route moves only Classifying -> Handling
\* -> Synthesizing -> Done or from one of the first three to Error, and
\* when every awaited call returns or raises, it emits done and closes
C2_StateMachine ==
    /\ [][route = "stream" /\ Stage /= "Idle" /\ Stage' /= Stage
            => <<Stage, Stage'>> \in StageSteps]_vars
    /\ <>(\/ route /= "stream"
          \/ body.kind = "empty"
          \/ closed /\ events[Len(events)] = doneEvent /\ Stage \in {"Done", "Error"})

C2_Witness ==
    /\ route = "stream" /\ closed /\ Stage = "Done"
    /\ intent = "workflow" /\ workflowResult.action = "update_status"

\* C3: when a stage raises, the stream ends with one apology text event
\* and done, the run is over, and the classifier, the handlers and the
\* synthesis model were each called at most once and not after the failure
C3_ErrorIsSwallowed ==
    (route = "stream" /\ failedAt \in {"Classifying", "Handling", "Synthesizing"}) =>
        /\ Len(events) >= 2
        /\ events[Len(events) - 1] = textEvent(Apology)
        /\ events[Len(events)] = doneEvent
        /\ Count(events, textEvent(Apology)) = 1
        /\ closed /\ ~ENABLED Next
        /\ Count(calls, "classifyRequest") = 1
        /\ NumHandlerCalls <= 1
        /\ Count(calls, "streamText") <= 1
        /\ failedAt = "Classifying" => NumHandlerCalls = 0
        /\ failedAt \in {"Classifying", "Handling"} => Count(calls, "streamText") = 0
        /\ failedAt = "Synthesizing" => calls[Len(calls)] = "streamText"

C3_Witness ==
    /\ route = "stream" /\ failedAt = "Handling" /\ intent = "workflow"
    /\ events[Len(events) - 1] = textEvent(Apology)

\* C4: once a ticket store call raised during Handling, the finished
\* stream carries the apology as its only text event and the request
\* failed in Handling
C4_StoreFailureIsFatal ==
    (route = "stream" /\ StoreRaised /\ pc = "closed") =>
        /\ failedAt = "Handling"
        /\ TextEvents(events) = << textEvent(Apology) >>

\* C5: one executeWorkflow call invokes createTicket at most once
C5_CreateAtMostOnce ==
    Count(calls, "executeWorkflow") = 1 => Count(calls, "createTicket") <= 1

\* C6: with a string message and a working ticket store, a failure of the
\* model never fails classification or handling: classifyRequest resolves
\* to one of the three labels and executeWorkflow to a WorkflowResult
C6_ModelFailureRecovered ==
    (body.kind = "string" /\ ~StoreRaised) =>
        /\ failedAt \in {"none", "Synthesizing"}
        /\ pc \notin {"idle", "classifying"} => intent \in Intents
        /\ (intent = "workflow" /\ pc \in {"synthesizing", "closed", "responded"})
              => /\ workflowResult.action \in Actions
                 /\ agentResult = workflowResult.message
        /\ \A i \in 1..Len(events) :
              events[i].type = "text" /\ events[i].content = Apology
                  => failedAt = "Synthesizing"

C6_Witness ==
    /\ body.kind = "string" /\ ~StoreRaised
    /\ Count(raised, "generateObject") = 2
    /\ pc = "closed" /\ failedAt = "none"
    /\ workflowResult.action = "create_ticket"

\* C7: a classification value outside the three labels is treated as a
\* failure of the call: classifyRequest returns the keyword fallback's
\* label, and never a value outside the three labels
C7_InvalidLabelFallsBack ==
    pc \notin {"idle", "classifying"} /\ failedAt /= "Classifying" =>
        /\ intent \in Intents
        /\ (llmIntent.kind = "object" /\ llmIntent.value \notin Intents)
              => /\ intent = keywordFallback(intakeCopy, body.text)
                 /\ raised[1] = "generateObject"

C7_Witness ==
    /\ llmIntent.kind = "object" /\ llmIntent.value = "billing"
    /\ intent = "escalation"

\* the model call of classifyRequest failed and the request went on
ClassifierFellBack ==
    /\ pc \notin {"idle", "classifying"}
    /\ body.kind = "string"
    /\ llmIntent.kind = "error"

\* C8: when the model call failed, the label is workflow if the lower-cased
\* message contains "ticket", "close" or "status", otherwise escalation if
\* it contains "human" or "agent", otherwise knowledge
C8_FallbackKeywords ==
    ClassifierFellBack =>
        LET lowerMsg == toLowerCase(body.text)
        IN  intent =
              IF \E kw \in {kwTicket, kwClose, kwStatus} : includes(lowerMsg, kw)
              THEN "workflow"
              ELSE IF \E kw \in {kwHuman, kwAgent} : includes(lowerMsg, kw)
              THEN "escalation"
              ELSE "knowledge"

\* C9: when the model call failed, every message that contains "reset" is
\* labelled workflow
C9_ResetIsWorkflow ==
    (ClassifierFellBack /\ includes(toLowerCase(body.text), kwReset))
        => intent = "workflow"

\* the handler function a label names
HandlerNamed(i) ==
    CASE i = "knowledge" -> "answerWithKnowledge"
      [] i = "workflow" -> "executeWorkflow"
      [] i = "escalation" -> "escalateToHuman"
      [] OTHER -> "none"

\* position of the first call of f in the call log, 0 when absent
FirstCall(f) ==
    IF \E i \in 1..Len(calls) : calls[i] = f
    THEN CHOOSE i \in 1..Len(calls) :
            calls[i] = f /\ \A j \in 1..(i - 1) : calls[j] /= f
    ELSE 0

\* C10: on both routes no handler is invoked while classification is
\* pending and synthesis is not started while a handler is pending; once
\* classification resolved exactly one handler has been invoked, the one
\* the label names, after classifyRequest and before streamText; and a
\* step enters handling only from classification and synthesis only from
\* handling
C10_StagesInOrder ==
    /\ [](/\ pc \in {"idle", "classifying"} =>
                NumHandlerCalls = 0 /\ Count(calls, "streamText") = 0
          /\ failedAt = "Classifying" => NumHandlerCalls = 0
          /\ pc \in HandlingPcs => Count(calls, "streamText") = 0
          /\ (pc \notin {"idle", "classifying"}
                /\ failedAt \notin {"Request", "Classifying"}) =>
                /\ NumHandlerCalls = 1
                /\ Count(calls, HandlerNamed(intent)) = 1
                /\ FirstCall("classifyRequest") = 1
                /\ FirstCall(HandlerNamed(intent)) > 1
                /\ route = "stream" =>
                      Count(events, statusEvent(statusName(intent))) = 1
          /\ Count(calls, "streamText") <= 1
          /\ Count(calls, "streamText") = 1 =>
                /\ calls[Len(calls)] = "streamText"
                /\ FirstCall(HandlerNamed(intent)) \in 2..(Len(calls) - 1))
    /\ [][/\ (Stage' = "Handling" /\ Stage /= "Handling") => Stage = "Classifying"
          /\ (Stage' = "Synthesizing" /\ Stage /= "Synthesizing") => Stage = "Handling"
          /\ Count(calls', "streamText") > Count(calls, "streamText")
                => pc \in HandlingPcs /\ pc' \in {"synthesizing", "responded"}]_vars

C10_Witness ==
    /\ route = "plain" /\ pc = "responded" /\ intent = "escalation"
    /\ calls = <<"classifyRequest", "generateObject", "escalateToHuman",
                 "createTicket", "streamText">>

\* the status agent name of a label
StatusNamed(i) ==
    CASE i = "knowledge" -> "Knowledge"
      [] i = "workflow" -> "Workflow"
      [] i = "escalation" -> "Escalation"
      [] OTHER -> "none"

\* C11: in the event stream no status event follows a text event; a
\* request that succeeded has streamed exactly status(Intake), the status
\* of the selected handler, status(Response), its text chunks and done;
\* and while a stage's call is pending, and ever after, that stage's status
\* event is already in the stream
C11_StatusBeforeText ==
    route = "stream" =>
        /\ \A i \in 1..Len(events) : \A j \in (i + 1)..Len(events) :
              events[i].type = "text" => events[j].type /= "status"
        /\ (pc = "closed" /\ failedAt = "none") =>
              /\ Len(events) = chunks + 4
              /\ SubSeq(events, 1, 3) = << statusEvent("Intake"),
                                           statusEvent(StatusNamed(intent)),
                                           statusEvent("Response") >>
              /\ \A i \in 4..(Len(events) - 1) : events[i].type = "text"
              /\ events[Len(events)] = doneEvent
        /\ Count(calls, "classifyRequest") > 0 =>
              Len(events) >= 1 /\ events[1] = statusEvent("Intake")
        /\ NumHandlerCalls > 0 =>
              Len(events) >= 2 /\ events[2].type = "status"
              /\ events[2].agent \in {"Knowledge", "Workflow", "Escalation"}
        /\ Count(calls, "streamText") > 0 =>
              Len(events) >= 3 /\ events[3] = statusEvent("Response")

C11_Witness ==
    /\ route = "stream" /\ pc = "closed" /\ failedAt = "none"
    /\ intent = "escalation" /\ chunks = MaxChunks

\* executeWorkflow returned to POST
WorkflowReturned ==
    intent = "workflow" /\ pc \in {"synthesizing", "closed", "responded"}

\* the decision carries a number as ticket id
CarriesId == Len(decision.parameters.ticketId) = 1

\* C12: check_status with any numeric ticket id the store does not resolve
\* returns action check_status, success false and the "couldn't find"
\* message with that id, does not raise, and leaves the store unchanged
C12_CheckStatusNotFound ==
    /\ []((/\ decision.action = "check_status" /\ CarriesId
           /\ ~getTicket(tickets, decision.parameters.ticketId[1]).found
           /\ ~StoreRaised
           /\ pc \notin {"extracting", "dispatching"})
          => /\ WorkflowReturned
             /\ workflowResult =
                   WorkflowResult("check_status", FALSE,
                                  Msg("couldnt_find", decision.parameters.ticketId[1]),
                                  NoData))
    /\ [][decision'.action = "check_status" => UNCHANGED store]_vars

\* the switch of executeWorkflow has run on the decision
Dispatched == decision /= NoDecision /\ pc \notin {"extracting", "dispatching"}

NoStoreCall == \A i \in 1..Len(calls) : calls[i] \notin StoreCalls

\* the clarification a decision with a missing parameter is answered with
Clarified(action, tpl) ==
    /\ WorkflowReturned
    /\ failedAt /= "Handling"
    /\ workflowResult = WorkflowResult(action, FALSE, Msg(tpl, 0), NoData)
    /\ agentResult = Msg(tpl, 0)
    /\ NoStoreCall
    /\ \A i \in 1..Len(raised) : raised[i] \notin {"switch", "executeWorkflow"}

\* C13: check_status and update_status without a ticket id, update_status
\* with an id and neither a newStatus nor a status keyword in the (string)
\* message, and analyze_logs without a system each return success false
\* with the clarification naming the missing parameter, raise nothing and
\* make no call to the ticket store
C13_MissingParameters ==
    Dispatched =>
        /\ (decision.action \in {"check_status", "update_status"}
              /\ decision.parameters.ticketId = NoId)
              => Clarified(decision.action, "ask_ticket_number")
        /\ (decision.action = "update_status"
              /\ ~noTicketId(decision.parameters.ticketId)
              /\ decision.parameters.newStatus = NULL
              /\ body.kind = "string"
              /\ \A kw \in {kwClose, kwShut, kwDone, kwComplete, kwFinish, kwResolve,
                            kwFix, kwProgress, kwStart, kwWork, kwBegin, kwReopen,
                            kwReOpen} : ~includes(toLowerCase(body.text), kw))
              => Clarified("update_status", "ask_status")
        /\ (decision.action = "analyze_logs" /\ decision.parameters.system = NULL)
              => Clarified("analyze_logs", "ask_system")

C13_Witness ==
    /\ Dispatched /\ decision.action = "update_status"
    /\ decision.parameters.ticketId = Id(1) /\ decision.parameters.newStatus = NULL
    /\ workflowResult.message = Msg("ask_status", 0)
    /\ pc = "closed" /\ failedAt = "none"

\* the status the keyword pass is said to find in a message
KeywordStatus(query) ==
    LET q == toLowerCase(query)
        has(kws) == \E kw \in kws : includes(q, kw)
    IN  IF has({kwClose, kwShut, kwDone, kwComplete, kwFinish}) THEN "closed"
        ELSE IF has({kwResolve, kwFix}) THEN "resolved"
        ELSE IF has({kwProgress, kwStart, kwWork, kwBegin}) THEN "in_progress"
        ELSE IF has({kwReopen, kwReOpen}) THEN "open"
        ELSE NULL

\* the status an update_status decision is said to resolve to
ResolvedStatus ==
    IF decision.parameters.newStatus /= NULL THEN decision.parameters.newStatus
    ELSE KeywordStatus(body.text)

\* C14: update_status with a ticket id takes the model's newStatus, else
\* the status of the keyword pass over the message, else asks for the
\* status without touching the store; with a status it updates the ticket,
\* or returns "couldn't find" when no ticket has the id; and the store is
\* called only when both the id and the status are determined
C14_UpdateStatusResolution ==
    (Dispatched /\ decision.action = "update_status") =>
        /\ (CarriesId /\ ~StoreRaised
              /\ (body.kind = "string" \/ decision.parameters.newStatus /= NULL)) =>
              LET id == decision.parameters.ticketId[1]
                  r == getTicket(tickets, id)
              IN  /\ WorkflowReturned
                  /\ IF ResolvedStatus = NULL
                     THEN /\ workflowResult =
                                WorkflowResult("update_status", FALSE,
                                               Msg("ask_status", 0), NoData)
                          /\ NoStoreCall
                     ELSE /\ Count(calls, "updateTicketStatus") = 1
                          /\ IF r.found
                             THEN /\ r.ticket.status = ResolvedStatus
                                  /\ workflowResult =
                                        WorkflowResult("update_status", TRUE,
                                                       Msg("updated", id),
                                                       TicketData(r.ticket))
                             ELSE workflowResult =
                                     WorkflowResult("update_status", FALSE,
                                                    Msg("couldnt_find", id), NoData)
        /\ Count(calls, "updateTicketStatus") > 0 =>
              CarriesId /\ ResolvedStatus /= NULL

(***************************************************************************)
(* Properties of the ticket store                                          *)
(***************************************************************************)
\* the row the last statement addressed
Addressed == getTicket(tickets, lastOp.id)

\* two rows that differ in updated_at at most
SameButUpdatedAt(a, b) == [a EXCEPT !.updatedAt = 0] = [b EXCEPT !.updatedAt = 0]

\* the last statement was an UPDATE that returned a row
Updated == lastOp.name = "updateTicketStatus" /\ lastOp.found

\* C15: a status update of an existing ticket succeeds and leaves the ticket
\* with the status written, whatever its status was, also when it already
\* had that status; writing a status the ticket already has changes no
\* field but updated_at, and writing the same status twice leaves the table
\* as writing it once
C15_UpdateIdempotent ==
    /\ [](lastOp.name = "updateTicketStatus"
            => /\ lastOp.found = Addressed.found
               /\ lastOp.found => Addressed.ticket.status = lastOp.status)
    /\ [][lastOp'.name = "updateTicketStatus" /\ lastOp'.repeat
            => /\ lastOp'.found
               /\ Len(tickets') = Len(tickets)
               /\ \A i \in 1..Len(tickets) : SameButUpdatedAt(tickets'[i], tickets[i])]_vars
    /\ [](\A ticketId \in StoreIds : \A status \in Statuses :
            \A t1 \in 0..MaxStoreClock : \A t2 \in t1..MaxStoreClock :
               updateTicketStatus(updateTicketStatus(tickets, ticketId, status, t1),
                                  ticketId, status, t2)
                 = updateTicketStatus(tickets, ticketId, status, t2))

\* a closed ticket was closed again, after its creation
C15_Witness ==
    /\ Updated
    /\ lastOp.repeat
    /\ lastOp.status = "closed"
    /\ Addressed.found
    /\ Addressed.ticket.status = "closed"
    /\ Addressed.ticket.updatedAt > Addressed.ticket.createdAt

\* what a caller gave, or the default of an optional field it left out
GivenOr(value, default) == IF value = NULL THEN default ELSE value

\* the ticket reads back as it was created
ReadsBack(g) ==
    LET r == getTicket(tickets, g.id)
    IN  /\ r.found
        /\ r.ticket.id = g.id
        /\ r.ticket.title = g.params.title
        /\ r.ticket.description = g.params.description
        /\ r.ticket.priority = GivenOr(g.params.priority, "medium")
        /\ r.ticket.category = GivenOr(g.params.category, "other")
        /\ r.ticket.status = "open"

\* C16: a ticket that was created and whose status was not updated since
\* is found under its id with the title, description, priority and
\* category given at creation (medium and other when left out) and status
\* open, whatever other tickets were created or updated in between
C16_CreateGetRoundTrip ==
    \A i \in 1..Len(given) : ~given[i].touched => ReadsBack(given[i])

\* a ticket created without priority and category is read after another
\* ticket was created and updated
C16_Witness ==
    /\ Len(given) = 2
    /\ \E i \in 1..2 : \E j \in 1..2 :
          /\ ~given[i].touched
          /\ given[i].params.priority = NULL
          /\ given[j].touched
          /\ given[j].params.priority = "high"
          /\ lastOp = Op("getTicket", given[i].id, NULL, TRUE, FALSE)
          /\ ReadsBack(given[i])

\* the ids of the rows of a table
IdsOf(ts) == { ts[i].id : i \in 1..Len(ts) }

\* C17: no two tickets share an id; a ticket keeps its id and stays in the
\* table; the id of a new ticket is larger than every id handed out before,
\* to a ticket or to an INSERT that failed, whichever caller created it and
\* however the callers' statements interleave
C17_IdsUnique ==
    /\ [](\A i \in 1..Len(tickets) : \A j \in 1..Len(tickets) :
             tickets[i].id = tickets[j].id => i = j)
    /\ [](\A i \in 1..Len(tickets) : tickets[i].id < nextId)
    /\ [][/\ nextId' >= nextId
           /\ Len(tickets') >= Len(tickets)
           /\ (\A i \in 1..Len(tickets) : tickets'[i].id = tickets[i].id)
           /\ (\A k \in (Len(tickets) + 1)..Len(tickets') :
                 /\ tickets'[k].id >= nextId
                 /\ tickets'[k].id \notin IdsOf(tickets))]_vars

\* a ticket was created after an INSERT that failed: its id skips one
C17_Witness ==
    /\ Len(tickets) = 2
    /\ tickets[2].id > tickets[1].id + 1
    /\ lastOp.name = "createTicket"
    /\ lastOp.id = tickets[2].id

\* the row of a ticket that was created
RowOf(g) == getTicket(tickets, g.id).ticket

\* C18: every ticket has a status, a priority and a category of the
\* enumerations; a ticket is open right after its creation; its priority
\* and category are the ones given at creation, or medium and other when
\* left out; on every creation path (workflow dispatcher, its keyword
\* fallback, escalation handler, create_ticket of the MCP server) and
\* whichever component created the table
C18_FieldsInEnumerations ==
    /\ \A i \in 1..Len(tickets) :
          /\ tickets[i].status \in Statuses
          /\ tickets[i].priority \in Priorities
          /\ tickets[i].category \in Categories
    /\ lastOp.name = "createTicket" => Addressed.found /\ Addressed.ticket.status = "open"
    /\ \A i \in 1..Len(given) :
          /\ getTicket(tickets, given[i].id).found
          /\ RowOf(given[i]).priority = GivenOr(given[i].params.priority, "medium")
          /\ RowOf(given[i]).category = GivenOr(given[i].params.category, "other")

\* in a table another component than the ticket service created, a ticket
\* was just created without a category, after a ticket of the escalation
\* handler
C18_Witness ==
    /\ tableOwner \in {"mcp", "api"}
    /\ lastOp.name = "createTicket"
    /\ Len(given) = 2
    /\ lastOp.id = given[2].id
    /\ given[1].params = escalationParams(msgLong)
    /\ given[2].params.category = NULL
    /\ RowOf(given[2]).category = "other"
    /\ RowOf(given[2]).status = "open"

\* C19: the update time of a ticket is never earlier than its creation
\* time; a status update that succeeds sets the update time to the time of
\* the statement, which is not earlier than the update time the ticket
\* had; no statement changes a creation time or moves an update time back
C19_UpdatedNotBeforeCreated ==
    /\ [](\A i \in 1..Len(tickets) : tickets[i].updatedAt >= tickets[i].createdAt)
    /\ [](Updated => Addressed.found /\ Addressed.ticket.updatedAt = now)
    /\ [][\A i \in 1..Len(tickets) :
             /\ i <= Len(tickets')
             /\ tickets'[i].createdAt = tickets[i].createdAt
             /\ tickets'[i].updatedAt >= tickets[i].updatedAt]_vars

\* the older of two tickets was updated after the newer one was created
C19_Witness ==
    /\ Updated
    /\ Len(tickets) = 2
    /\ lastOp.id = tickets[1].id
    /\ tickets[1].createdAt < tickets[2].createdAt
    /\ tickets[1].updatedAt > tickets[1].createdAt
    /\ tickets[2].updatedAt = tickets[2].createdAt

\* two rows that differ in status and updated_at at most
SameButStatus(a, b) ==
    [a EXCEPT !.status = NULL, !.updatedAt = 0] = [b EXCEPT !.status = NULL, !.updatedAt = 0]

\* C20: no statement removes a ticket and the set of ids only grows;
\* getTicket and listTickets change nothing; updateTicketStatus changes
\* the status and the update time of the ticket it addresses and nothing
\* else; getTicket and updateTicketStatus report an id that no ticket has
\* as not found, and then the update changes nothing
C20_Frame ==
    /\ [][/\ Len(tickets') >= Len(tickets)
           /\ IdsOf(tickets) \subseteq IdsOf(tickets')]_vars
    /\ [][lastOp'.name \in {"getTicket", "listTickets"}
            => UNCHANGED <<tickets, nextId, now>>]_vars
    /\ [][lastOp'.name \in {"getTicket", "updateTicketStatus"}
            => lastOp'.found = (lastOp'.id \in IdsOf(tickets))]_vars
    /\ [][lastOp'.name = "updateTicketStatus"
            => /\ nextId' = nextId
               /\ Len(tickets') = Len(tickets)
               /\ \A i \in 1..Len(tickets) :
                     IF tickets[i].id = lastOp'.id
                     THEN SameButStatus(tickets'[i], tickets[i])
                     ELSE tickets'[i] = tickets[i]]_vars
    /\ [][lastOp'.name = "updateTicketStatus" /\ lastOp'.id \notin IdsOf(tickets)
            => tickets' = tickets]_vars

\* an update addressed an id no ticket has, in a table of two tickets of
\* which one was updated before
C20_Witness ==
    /\ lastOp = Op("updateTicketStatus", lastOp.id, "closed", FALSE, FALSE)
    /\ Len(tickets) = MaxTickets
    /\ lastOp.id \notin IdsOf(tickets)
    /\ tickets[1].status = "open"
    /\ tickets[2].status = "closed"

(***************************************************************************)
(* Properties of the handlers                                              *)
(***************************************************************************)
\* decision.parameters.statusFilter, "all" when it is absent
ListFilter ==
    IF decision.parameters.statusFilter = NULL THEN "all"
    ELSE decision.parameters.statusFilter

\* the filter keeps the row
Matches(r, status) == status = "all" \/ r.status = status

\* rows is what a list of the table ts under the filter and the cap may
\* hold: rows of the table, each once, all matching, newest created first,
\* as many as match up to the cap, and no matching row left out is newer
\* than a row listed
Listed(rows, ts, status, cap) ==
    /\ Len(rows) <= cap
    /\ \A i \in 1..Len(rows) : \E j \in 1..Len(ts) : rows[i] = ts[j]
    /\ \A i \in 1..Len(rows) : \A j \in 1..Len(rows) : rows[i].id = rows[j].id => i = j
    /\ \A i \in 1..Len(rows) : Matches(rows[i], status)
    /\ \A i \in 1..Len(rows) : \A j \in 1..Len(rows) :
          i < j => rows[i].createdAt >= rows[j].createdAt
    /\ Len(rows) = Min(cap, Cardinality({ j \in 1..Len(ts) : Matches(ts[j], status) }))
    /\ \A j \in 1..Len(ts) :
          (Matches(ts[j], status) /\ \A i \in 1..Len(rows) : rows[i] /= ts[j])
             => \A i \in 1..Len(rows) : rows[i].createdAt >= ts[j].createdAt

\* the list_tickets branch of the switch returned
ListReturned ==
    decision.action = "list_tickets" /\ WorkflowReturned /\ ~StoreRaised

EscalationReturned ==
    /\ intent /= NULL
    /\ handlerFor(intent) = "escalation"
    /\ pc \in {"synthesizing", "closed", "responded"}
    /\ failedAt /= "Handling"

\* the newest row of the table
LastTicket == tickets[Len(tickets)]

\* s ends with the sequence tail
EndsWith(s, tail) ==
    Len(s) >= Len(tail) /\ SubSeq(s, Len(s) - Len(tail) + 1, Len(s)) = tail

\* C22: every invocation of the escalation handler that returns, for any
\* (string) message, has called createTicket once and created exactly one
\* new ticket, with priority high, category other and status open, whose
\* description embeds the whole message and whose title is built from its
\* first 40 characters at most; the ticketId returned is that ticket's id
\* and the message returned carries it
C22_EscalationCreatesTicket ==
    /\ [](EscalationReturned =>
            /\ Count(calls, "createTicket") = 1
            /\ Len(tickets) >= 1
            /\ LastTicket.priority = "high"
            /\ LastTicket.category = "other"
            /\ LastTicket.status = "open"
            /\ EndsWith(LastTicket.description, body.text)
            /\ LastTicket.title =
                  escalationPrefix \o SubSeq(body.text, 1, Min(40, Len(body.text))) \o ellipsis
            /\ agentResult = Msg("escalated", LastTicket.id)
            /\ \E i \in 1..Len(metricsEvents) :
                  metricsEvents[i] = MetricEvent("ticket", NULL, TRUE, LastTicket.id))
    /\ [][(pc = "escalating" /\ failedAt' /= "Handling")
            => /\ Len(tickets') = Len(tickets) + 1
               /\ SubSeq(tickets', 1, Len(tickets)) = tickets
               /\ \A i \in 1..Len(tickets) : tickets[i].id /= tickets'[Len(tickets')].id]_vars
    /\ [][(pc = "escalating" /\ failedAt' = "Handling") \/ EscalationReturned
            => tickets' = tickets]_vars

\* a message of more than 40 characters was escalated on a table that
\* held two tickets
C22_Witness ==
    /\ EscalationReturned
    /\ pc = "closed"
    /\ body.text = msgLong
    /\ Len(body.text) > 40
    /\ Len(tickets) = 3
    /\ Len(LastTicket.title) = Len(escalationPrefix) + 40 + Len(ellipsis)

\* the generateObject call of executeWorkflow raised
ExtractionRaised ==
    Count(raised, "generateObject") > (IF generateObjectIntent(llmIntent).ok THEN 0 ELSE 1)

\* the catch block of executeWorkflow ran on a string message and
\* executeWorkflow returned
FellBack ==
    /\ WorkflowReturned
    /\ body.kind = "string"
    /\ ExtractionRaised \/ StoreRaised \/ \E i \in 1..Len(raised) : raised[i] = "switch"
    /\ \A i \in 1..Len(raised) : raised[i] /= "executeWorkflow"

\* the lower-cased message contains one of the keywords
HasAny(keywords) == \E kw \in keywords : includes(toLowerCase(body.text), kw)

\* the createTicket calls of the request that returned a ticket
TicketsCreated == Count(calls, "createTicket") - Count(raised, "createTicket")

\* C25: when extraction or dispatch raised, a message that contains
\* ticket, broken, issue or fix in lower case gets a ticket created with
\* title = its first 50 characters, description = the message, priority
\* medium and category other, and the result create_ticket, success true,
\* with the new id in the message; otherwise a message that contains
\* password or reset gets password_reset with success true and no ticket;
\* otherwise the result is unknown with success false and no ticket; the
\* ticket keywords take precedence over the password keywords
C25_WorkflowFallback ==
    FellBack =>
        IF HasAny({kwTicket, kwBroken, kwIssue, kwFix})
        THEN /\ workflowResult.action = "create_ticket"
             /\ workflowResult.success
             /\ workflowResult.message = Msg("created_fallback", LastTicket.id)
             /\ workflowResult.data = TicketData(LastTicket)
             /\ LastTicket.title = SubSeq(body.text, 1, Min(50, Len(body.text)))
             /\ LastTicket.description = body.text
             /\ LastTicket.priority = "medium"
             /\ LastTicket.category = "other"
             /\ TicketsCreated = 1
        ELSE IF HasAny({kwPassword, kwReset})
        THEN /\ workflowResult.action = "password_reset"
             /\ workflowResult.success
             /\ TicketsCreated = 0
        ELSE /\ workflowResult.action = "unknown"
             /\ ~workflowResult.success
             /\ TicketsCreated = 0

\* the model call raised on a message with a ticket keyword and a
\* password keyword, and a ticket was created
C25_Witness ==
    /\ FellBack
    /\ ExtractionRaised
    /\ body.text = msgFixPassword
    /\ HasAny({kwFix}) /\ HasAny({kwPassword})
    /\ workflowResult.action = "create_ticket"
    /\ pc = "closed"

\* the text events of the chunks the synthesis stream yielded
ChunkEvents == [i \in 1..chunks |-> textEvent("chunk")]

\* C28: when the synthesis stream raises after k >= 1 text events were
\* emitted, those k events stay in the stream and are followed by the
\* apology text event and then done, so the text of the run is the
\* partial reply followed by the apology; an event that was sent is never
\* retracted
C28_PartialReplyKept ==
    /\ []((route = "stream" /\ failedAt = "Synthesizing" /\ chunks >= 1)
           => /\ TextEvents(events) = ChunkEvents \o << textEvent(Apology) >>
              /\ Len(events) = 3 + chunks + 2
              /\ SubSeq(events, 4, 3 + chunks) = ChunkEvents
              /\ events[Len(events) - 1] = textEvent(Apology)
              /\ events[Len(events)] = doneEvent)
    /\ [][/\ Len(events') >= Len(events)
           /\ SubSeq(events', 1, Len(events)) = events]_vars

\* the stream raised after its last chunk
C28_Witness ==
    /\ route = "stream"
    /\ failedAt = "Synthesizing"
    /\ chunks = MaxChunks
    /\ pc = "closed"
    /\ Len(TextEvents(events)) = MaxChunks + 1

\* the positions of the log that hold an event of a type
Positions(evs, type) == { i \in 1..Len(evs) : evs[i].type = type }

\* the windows a summary is asked for: the whole log, the last time unit
Windows == {0, 1}

\* C26: a request records no routing event before its classification
\* completes and exactly one when it does: the event that follows the
\* intake latency event, recorded before the handler is invoked, whose
\* agent is the classification label and whose success flag is true; the
\* routing accuracy of every summary is 1
C26_OneRoutingEvent ==
    /\ [](/\ intent = NULL => Positions(metricsEvents, "routing") = {}
          /\ intent /= NULL =>
                /\ Positions(metricsEvents, "routing") = {2}
                /\ metricsEvents[1] = MetricEvent("latency", "intake", TRUE, 0)
                /\ metricsEvents[2].agent = intent
                /\ metricsEvents[2].success
          /\ NumHandlerCalls > 0 => Positions(metricsEvents, "routing") /= {}
          /\ \A w \in Windows : getSummary(metricsEvents, w, wall).routingAccuracy = 100)
    /\ [][(intent = NULL /\ intent' /= NULL)
            => /\ NumHandlerCalls = 0
               /\ SubSeq(metricsEvents', 1, 2)
                     = << MetricEvent("latency", "intake", TRUE, 0),
                          MetricEvent("routing", intent', TRUE, 0) >>]_vars

\* a request classified as workflow ran to the end of its stream
C26_Witness ==
    /\ intent = "workflow"
    /\ pc = "closed"
    /\ failedAt = "none"
    /\ Cardinality(Positions(metricsEvents, "routing")) = 1
    /\ Len(metricsEvents) >= 3

\* the handler of the request completed
HandlerReturned == Count(calls, "streamText") = 1

ClassificationValues == { o.value : o \in { c \in ClassifyOutcomes : c.kind = "object" } }

\* C29: every classification value that is neither knowledge nor workflow,
\* a value outside the three labels included, takes the escalation branch,
\* and every value takes one branch; the request then invokes the
\* escalation handler and no other, and when that handler returns the
\* request has created one ticket of priority high and recorded a ticket
\* metric event with success true
C29_ElseEscalates ==
    /\ \A i \in ClassificationValues :
          /\ handlerFor(i) \in {"knowledge", "workflow", "escalation"}
          /\ i \notin {"knowledge", "workflow"} => handlerFor(i) = "escalation"
    /\ intent /= NULL => NumHandlerCalls = 1
    /\ (intent /= NULL /\ intent \notin {"knowledge", "workflow"}) =>
          /\ Count(calls, "escalateToHuman") = 1
          /\ Count(calls, "answerWithKnowledge") = 0
          /\ Count(calls, "executeWorkflow") = 0
          /\ HandlerReturned =>
                /\ TicketsCreated = 1
                /\ LastTicket.priority = "high"
                /\ Len(metricsEvents) = 4
                /\ metricsEvents[4] = MetricEvent("ticket", NULL, TRUE, LastTicket.id)

\* an escalated request ran to the end of its stream
C29_Witness ==
    /\ intent = "escalation"
    /\ HandlerReturned
    /\ pc = "closed"
    /\ failedAt = "none"
    /\ TicketsCreated = 1
    /\ metricsEvents[Len(metricsEvents)].type = "ticket"

\* the events addEvent was called with, oldest first
Appended == [i \in 1..Len(history) |-> history[i].event]

\* the last k elements of a sequence
LastOf(seq, k) == SubSeq(seq, Len(seq) - k + 1, Len(seq))

\* C23: the log never holds more than 1000 events; after n appends it
\* holds exactly the last min(n, 1000) appended events in their append
\* order, so after 1001 appends the first is gone and the other 1000
\* remain; an append changes no recorded event and no order: it adds the
\* new event at the end and drops the oldest one of a full log
C23_BoundedFifo ==
    /\ [](/\ Len(metricsEvents) <= maxEvents
          /\ Len(metricsEvents) = Min(Len(history), maxEvents)
          /\ metricsEvents = LastOf(Appended, Min(Len(history), maxEvents))
          /\ Len(history) = maxEvents + 1 =>
                metricsEvents = SubSeq(Appended, 2, maxEvents + 1))
    /\ [][\/ metricsEvents' = metricsEvents /\ history' = history
          \/ /\ Len(history') = Len(history) + 1
             /\ SubSeq(history', 1, Len(history)) = history
             /\ metricsEvents'[Len(metricsEvents')] = history'[Len(history')].event
             /\ IF Len(metricsEvents) < maxEvents
                THEN SubSeq(metricsEvents', 1, Len(metricsEvents)) = metricsEvents
                ELSE SubSeq(metricsEvents', 1, maxEvents - 1) = Tail(metricsEvents)]_vars

\* the 1001st event was appended
C23_Witness ==
    /\ Len(history) = maxEvents + 1
    /\ Len(metricsEvents) = maxEvents
    /\ metricsEvents[1] = history[2].event
    /\ metricsEvents[maxEvents] = history[maxEvents + 1].event
    /\ history[maxEvents + 1].request \in Requests

\* the events request r appended, oldest first
AppendedBy(h, r) ==
    LET own == SelectSeq(h, LAMBDA a : a.request = r)
    IN  [i \in 1..Len(own) |-> own[i].event]

\* the appends the log still holds, with the request that made each
Retained == LastOf(history, Len(metricsEvents))

\* s is the end of the sequence whole
IsSuffix(s, whole) == Len(s) <= Len(whole) /\ s = LastOf(whole, Len(s))

\* C24: with requests in flight that interleave at their awaits, every
\* append is one step with its eviction: each record call of a request
\* appears once among the appends, in the order the request made them, and
\* nothing else does; the log is at every moment the last appends, at most
\* 1000 of them, so what a reader gets (summary or recent events) is taken
\* from at most 1000 events; the events of one request that the log holds
\* are the last ones it recorded, in the order it recorded them
C24_AtomicAppend ==
    /\ [](/\ Len(metricsEvents) <= maxEvents
          /\ Len(metricsEvents) = Min(Len(history), maxEvents)
          /\ LET retained == Retained
             IN  /\ \A r \in Requests :
                       /\ AppendedBy(history, r) = inflight[r].recorded
                       /\ IsSuffix(AppendedBy(retained, r), inflight[r].recorded)
                 /\ [i \in 1..Len(retained) |-> retained[i].event] = metricsEvents
          /\ lastRead.kind = "read" =>
                /\ Len(lastRead.recentEvents) <= recentCount
                /\ lastRead.lastHour.totalRequests <= maxEvents
                /\ lastRead.last24Hours.totalRequests <= maxEvents)
    /\ [][\A r \in Requests :
            Len(inflight'[r].recorded) > Len(inflight[r].recorded)
                => /\ Len(history') = Len(history) + 1
                   /\ history'[Len(history')].request = r
                   /\ Len(metricsEvents') = Min(Len(metricsEvents) + 1, maxEvents)]_vars
    /\ [][lastRead' /= lastRead
            => /\ lastRead'.recentEvents = LastOf(metricsEvents, Min(recentCount, Len(metricsEvents)))
               /\ UNCHANGED <<metricsEvents, history>>]_vars

\* two requests recorded their events alternately on a full log, and the
\* metrics route was read in between
C24_Witness ==
    /\ Len(history) >= maxEvents + 4
    /\ Len(metricsEvents) = maxEvents
    /\ lastRead.kind = "read"
    /\ lastRead.recentEvents /= LastOf(metricsEvents, recentCount)
    /\ \E i \in (maxEvents + 1)..(Len(history) - 3) :
          /\ history[i].request = 1
          /\ history[i + 1].request = 2
          /\ history[i + 2].request = 1
          /\ history[i + 3].request = 2

\* the windows the metrics route asks for
SummaryWindows == {hourWindow, dayWindow}

\* how many events of a type the log holds in the window w
InWindow(type, w) ==
    Cardinality({ i \in 1..Len(metricsEvents) :
                    /\ metricsEvents[i].type = type
                    /\ metricsEvents[i].timestamp >= wall - w })

\* the latency and error events a request recorded for a stage
StageEvents(recorded, agent) ==
    SelectSeq(recorded, LAMBDA e : e.type \in {"latency", "error"} /\ e.agent = agent)

\* each stage of a request that settled recorded one event, a latency
\* event or an error event, and a request that completed classification
\* and handling recorded two latency events and no error event
OneEventPerStage ==
    \A r \in Requests :
        LET q == inflight[r]
            intake == StageEvents(q.recorded, "intake")
            handling == IF q.intent = NULL THEN << >>
                        ELSE StageEvents(q.recorded, handlerFor(q.intent))
        IN  /\ Len(intake) = IF q.pc \in {"idle", "classifying"} THEN 0 ELSE 1
            /\ Len(handling) =
                  (IF q.pc \in {"handled", "done"} \/ (q.pc = "failed" /\ q.intent /= NULL)
                   THEN 1 ELSE 0)
            /\ Len(OfType(q.recorded, "latency")) + Len(OfType(q.recorded, "error"))
                  = Len(intake) + Len(handling)
            /\ q.pc \in {"handled", "done"} =>
                  /\ Len(OfType(q.recorded, "latency")) = 2
                  /\ Len(OfType(q.recorded, "error")) = 0
            /\ q.pc = "failed" => Len(OfType(q.recorded, "error")) = 1

\* while nothing was evicted, the summary of the last day counts every
\* latency event that was recorded
CountsLatencyEvents ==
    Len(history) <= maxEvents =>
        getSummary(metricsEvents, dayWindow, wall).totalRequests
            = Len(OfType(Appended, "latency"))

\* C30 as stated: totalRequests is the number of latency events in the
\* window, each stage adds one event, and errorRate is the quotient of the
\* error events by the latency events
C30_ErrorRateExact ==
    /\ OneEventPerStage
    /\ CountsLatencyEvents
    /\ \A w \in SummaryWindows :
          LET l == InWindow("latency", w)
              e == InWindow("error", w)
              summary == getSummary(metricsEvents, w, wall)
          IN  /\ summary.totalRequests = l
              /\ IF l = 0 THEN summary.errorRate = 0 ELSE summary.errorRate * l = 100 * e

\* C30: getSummary counts latency events, not requests: totalRequests is
\* the number of latency events in the window; each stage wrapped by
\* withLatencyTracking adds one event, latency or error and never both, so
\* a request that completes classification and handling adds 2; errorRate
\* is error events / latency events rounded to two decimals, half up, and
\* 0 when there is no latency event
C30_SummaryCounts ==
    /\ OneEventPerStage
    /\ CountsLatencyEvents
    /\ \A w \in SummaryWindows :
          LET l == InWindow("latency", w)
              e == InWindow("error", w)
              summary == getSummary(metricsEvents, w, wall)
          IN  /\ summary.totalRequests = l
              /\ IF l = 0 THEN summary.errorRate = 0
                 ELSE /\ 200 * e - l < 2 * l * summary.errorRate
                      /\ 2 * l * summary.errorRate <= 200 * e + l

\* one request completed, the handler of the other raised, and the last
\* hour's summary read 3 requests and an error rate of 0.33
C30_Witness ==
    /\ lastRead.kind = "read"
    /\ lastRead.lastHour = getSummary(metricsEvents, hourWindow, wall)
    /\ lastRead.lastHour.totalRequests = 3
    /\ lastRead.lastHour.errorRate = 33
    /\ InWindow("error", hourWindow) = 1
    /\ \E r \in Requests : inflight[r].pc = "done"
    /\ \E r \in Requests : inflight[r].pc = "failed"

====
